---------------------------- MODULE Spec2Model ----------------------------
(***************************************************************************)
(* DoesPlayer: the playback clock, the sync controller, the video decode    *)
(* worker, the audio track workers with their manager, and the player,     *)
(* modelled from src/src/sync.py, src/src/video_decoder.py,                *)
(* src/src/audio_decoder.py and src/main.py.                               *)
(*                                                                         *)
(* Time is counted in ticks of one frame duration: the wall clock          *)
(* (time.perf_counter) is the variable now, and every pts is a whole       *)
(* number of ticks. The frame-stepping path counts in finer ticks of its   *)
(* own (FrameTicks to a frame duration).                                   *)
(*                                                                         *)
(* Each component has its own specification over the shared variables:     *)
(*   ClockSpec        PlaybackClock called from several threads            *)
(*   SyncSpec         SyncController: its thread, its controller, a        *)
(*                    producer                                             *)
(*   DecoderSpec      VideoDecoder: its thread, its owner, the display     *)
(*                    side                                                 *)
(*   AudioSpec        AudioManager and its AudioTrackPlayers: the life     *)
(*                    cycle commands, the threads, the output streams      *)
(*   MixerSpec        the same workers under the volume and mute controls  *)
(*   CallbackSpec     one audio worker and its output stream's callback    *)
(*                    under mute, pause and seek                           *)
(*   StepSpec         VideoDecoder's frame-stepping path and its cache     *)
(*   LiveStepSpec     the frame-stepping path called while the decode      *)
(*                    thread runs                                          *)
(*   WorkerSpec       the video worker, then the audio workers             *)
(*   PlayerSpec       VideoPlayer showing a file without audio             *)
(*   PlayerAudioSpec  VideoPlayer's open, play, pause and stop on a file   *)
(*                    with audio                                           *)
(*   VolumeSpec       VideoPlayer's volume keys on a file with audio       *)
(***************************************************************************)
EXTENDS Integers, Sequences, FiniteSets, TLC

(***************************************************************************)
(* Bounds of the model.                                                    *)
(***************************************************************************)
\* Wall-clock ticks that may pass in a behaviour.
MaxWall == 1
\* Largest pts handed to start() and seek(), and largest pts of a frame.
MaxPts == 1
\* Frames the producer may put on the sync controller's queue in a behaviour.
MaxFrames == 3
\* Capacity of the sync controller's frame queue.
MaxQueue == 2
\* Frames in the file the video decoder reads.
VideoLen == 3
\* Capacity of the video decoder's frame queue.
DecQueueMax == 1
\* Chunks in each audio track of a file (one more in CallbackSpec).
AudioLen == 2
\* Capacity of an audio worker's chunk queue.
AudioQueueMax == 1
\* Largest playback time the player's wall clock reaches in a behaviour.
MaxPlayTime == 3

PtsArgs == 0..MaxPts

VARIABLES
    \* ---- PlaybackClock
    clock,        \* the PlaybackClock's fields
    clock_lock,   \* holder of PlaybackClock._lock, or NoThread
    now,          \* time.perf_counter(), in ticks
    pc,           \* per calling thread: where it is in its clock call
    op,           \* per calling thread: the clock method it is in
    obs,          \* history: what the last get_time() returned, until the
                  \*   clock is changed or the wall clock advances
    anchor,       \* history: the seek() or resume() just made, until anything
                  \*   else changes the clock or the wall clock advances
    since_mut,    \* history: the last get_time() value since the last change
    streak,       \* history: pause() calls completed in a row (at most 2)
    after_first,  \* history: the clock as the first pause() of a row left it
    \* ---- SyncController
    frame_queue,       \* SyncController.frame_queue: the pts of the frames in it
    sync_running,      \* SyncController._running
    frames_displayed,  \* SyncController._frames_displayed
    frames_dropped,    \* SyncController._frames_dropped
    spc,               \* where the sync thread is in _sync_loop
    frame,             \* _sync_loop's local frame (its pts), NoFrame if none
    current_time,      \* _sync_loop's local current_time
    running_seen,      \* _sync_loop line 187: the value read from self._running
    clock_seen,        \* _sync_loop line 187: what clock.is_running() returned
    ctl_then,          \* what the controller's method does after its clock call
    n_produced,        \* history: frames put on the queue so far
    last_pts,          \* history: pts of the last frame put on the queue
    held_late,         \* history: the frame held was found late when dequeued
    interrupted,       \* history: pause() or stop() completed during the wait
    last_shown,        \* history: pts of the last frame given to on_frame_ready
    \* ---- VideoDecoder
    container,         \* self.container: "none", "open" or "closed"
    container_pos,     \* index of the frame the container decodes next
    dec_running,       \* VideoDecoder._running
    dec_paused,        \* VideoDecoder._paused
    dec_finished,      \* VideoDecoder._finished
    seek_requested,    \* VideoDecoder._seek_requested
    seek_target,       \* VideoDecoder._seek_target
    dec_queue,         \* VideoDecoder.frame_queue: the pts of the frames in it
    dpc,               \* where the decode thread is in run()
    dec_frame,         \* run()'s local frame (its index), NoFrame if none
    frame_number,      \* run()'s local frame_number
    dctl,              \* where the thread that called stop() is in it
    closed_decode,     \* what decoding from a closed container does
    stop_state,        \* history: stop() was called, the thread started or not
    seek_pending,      \* history: a seek() of the running worker is not done
    seek_handled,      \* history: the decode thread has handled a seek request
    frame_stale,       \* history: run()'s local frame was decoded before the
                       \*   last seek the thread handled
    dec_queue_stale,   \* history: for each frame in the queue, whether it was
                       \*   decoded before the last seek the thread handled
    dec_resumed,       \* history: resume() was called on a finished worker
    \* ---- AudioTrackPlayer, AudioManager
    aw,                \* per track id: the fields of its AudioTrackPlayer and
                       \*   where its thread is in run()
    players,           \* the keys of AudioManager.players
    track_info,        \* the indexes in AudioManager.track_info
    am_initialized,    \* initialize_all_tracks() has been called
    init_result,       \* what initialize_all_tracks() returned, FALSE before
    aw_resumed,        \* history: resume() was called on a finished worker
    \* ---- VideoPlayer
    is_playing,        \* VideoPlayer._is_playing
    player_pts,        \* VideoPlayer._current_pts
    play_clock,        \* _playback_start_pts + (time.perf_counter() -
                       \*   _playback_start_time) while the timers run, 0
                       \*   while they do not
    pending_frame,     \* VideoPlayer._pending_frame (its pts), NoFrame if none
    has_decoder,       \* self._video_decoder is not None
    has_manager,       \* self._audio_manager is not None
    player_duration,   \* VideoPlayer._duration
    timers_on,         \* the display and position timers are started
    start_pending,     \* QTimer.singleShot(100, self._start_playback) is due
    file_ok,           \* the file the player was given can be opened
    started_twice,     \* history: start() was called on a thread that had
                       \*   been started before
    last_cmd,          \* history: the last handler of the player that ran
    master_volume,     \* VideoPlayer._master_volume, counted like a track's volume
    dec_lock,          \* VideoDecoder._lock: "free", or "thread" while the decode
                       \*   thread holds it across steps
    \* ---- the file, and VideoDecoder's frame-stepping path
    audio_len,         \* the chunks in each audio stream of the file
    file_fault,        \* what is wrong with the file: "none", "bad_frame"
                       \*   (decoding its frame BadFrame raises) or "bad_seek"
                       \*   (the container rejects every seek timestamp)
    step_file,         \* the pts of the file's frames, in decode order
    step_rate,         \* the frames of the file in two seconds: 2.0 * self.fps
    frame_cache,       \* VideoDecoder._frame_cache: the pts of its frames
    step_container,    \* self._step_container is not None
    step_decoder,      \* self._step_decoder is not None
    step_pos,          \* index of the frame the step container decodes next
    step_last_pts,     \* VideoDecoder._step_last_pts
    step_returned,     \* history: the pts of the frame the last
                       \*   get_frame_at_position() returned, NoFrame for None
    step_decoded,      \* history: the pts of the frames it decoded
    forward_run        \* history: the calls made so far in a row of forward
                       \*   steps of one frame that began with an empty cache
                       \*   and no step decoder, each from the frame the call
                       \*   before it returned; 0 when the last call was
                       \*   not such a step

clockState == <<clock, clock_lock, now, pc, op>>
clockHistory == <<obs, anchor, since_mut, streak, after_first>>
clockVars == <<clockState, clockHistory>>

syncVars == <<frame_queue, sync_running, frames_displayed, frames_dropped, spc,
              frame, current_time, running_seen, clock_seen, ctl_then,
              n_produced, last_pts, held_late, interrupted, last_shown>>

decVars == <<container, container_pos, dec_running, dec_paused, dec_finished,
             seek_requested, seek_target, dec_queue, dpc, dec_frame,
             frame_number, dctl, closed_decode, stop_state, seek_pending,
             seek_handled, frame_stale, dec_queue_stale, dec_resumed>>

audioVars == <<aw, players, track_info, am_initialized, init_result,
               aw_resumed>>

playerVars == <<is_playing, player_pts, play_clock, pending_frame,
                has_decoder, has_manager, player_duration,
                timers_on, start_pending, file_ok, started_twice, last_cmd>>

stepVars == <<step_file, step_rate, frame_cache, step_container, step_decoder,
              step_pos, step_last_pts, step_returned, step_decoded, forward_run>>

vars == <<clockVars, syncVars, decVars, audioVars, playerVars, stepVars,
          file_fault, audio_len, master_volume, dec_lock>>

(***************************************************************************)
(* PlaybackClock                                                           *)
(***************************************************************************)
NoThread == "none"
ClockCallers == {"t1", "t2"}
Threads == ClockCallers \cup {"ctl"}

ClockOps == {"start", "pause", "resume", "seek", "get_time", "is_running", "stop"}

\* PlaybackClock.__init__. The field _current_pts is left out: start, seek and
\* stop write it and nothing in the program reads it.
PlaybackClock_init ==
    [is_running |-> FALSE, start_time |-> 0, start_pts |-> 0, paused_at |-> 0]

\* PlaybackClock.start, under the lock
clock_start(c, pts, wall) ==
    [c EXCEPT !.start_time = wall, !.start_pts = pts, !.is_running = TRUE]

\* PlaybackClock.resume, under the lock
clock_resume(c, wall) ==
    IF ~c.is_running
    THEN [c EXCEPT !.start_time = wall, !.start_pts = c.paused_at,
                   !.is_running = TRUE]
    ELSE c

clock_seek_noPausedAt(c, pts, wall) ==
    IF c.is_running
    THEN [c EXCEPT !.start_pts = pts, !.start_time = wall]
    ELSE [c EXCEPT !.start_pts = pts]

\* PlaybackClock.seek, under the lock
clock_seek(c, pts, wall) ==
    IF c.is_running
    THEN [c EXCEPT !.start_pts = pts, !.start_time = wall]
    ELSE [c EXCEPT !.start_pts = pts, !.paused_at = pts]

clock_get_time_ignoresRunning(c, wall) ==
    c.start_pts + (wall - c.start_time)

\* PlaybackClock.get_time, under the lock
clock_get_time(c, wall) ==
    IF c.is_running
    THEN c.start_pts + (wall - c.start_time)
    ELSE c.paused_at

\* PlaybackClock.stop, under the lock
clock_stop(c) ==
    [c EXCEPT !.is_running = FALSE]

\* PlaybackClock.pause after its get_time() call has returned t
clock_pause_store(c, t) ==
    [c EXCEPT !.paused_at = t, !.is_running = FALSE]

\* ---- the program's steps, on the clock's state alone

\* A thread calls a clock method: it goes for the lock first (with self._lock).
ClockCall(t, o) ==
    /\ pc[t] = "idle"
    /\ pc' = [pc EXCEPT ![t] = "acquire"]
    /\ op' = [op EXCEPT ![t] = o]
    /\ UNCHANGED <<clock, clock_lock, now>>

\* threading.Lock.acquire: not reentrant, the holder itself waits like anyone.
ClockAcquire(t) ==
    /\ pc[t] = "acquire"
    /\ clock_lock = NoThread
    /\ clock_lock' = t
    /\ pc' = [pc EXCEPT ![t] = "body"]
    /\ UNCHANGED <<clock, now, op>>

\* The method is left: the lock is released and the thread is idle again.
Return(t) ==
    /\ clock_lock' = NoThread
    /\ pc' = [pc EXCEPT ![t] = "idle"]
    /\ op' = [op EXCEPT ![t] = "none"]

StartBody(t, pts) ==
    /\ pc[t] = "body" /\ op[t] = "start"
    /\ clock' = clock_start(clock, pts, now)
    /\ Return(t)
    /\ UNCHANGED now

\* pause(): on a running clock it calls self.get_time() with the lock held,
\* and get_time() goes for the same lock.
PauseBody(t) ==
    /\ pc[t] = "body" /\ op[t] = "pause"
    /\ IF clock.is_running
       THEN /\ pc' = [pc EXCEPT ![t] = "acquire"]
            /\ op' = [op EXCEPT ![t] = "pause.get_time"]
            /\ UNCHANGED clock_lock
       ELSE Return(t)
    /\ UNCHANGED <<clock, now>>

ResumeBody(t) ==
    /\ pc[t] = "body" /\ op[t] = "resume"
    /\ clock' = clock_resume(clock, now)
    /\ Return(t)
    /\ UNCHANGED now

SeekBody(t, pts) ==
    /\ pc[t] = "body" /\ op[t] = "seek"
    /\ clock' = clock_seek(clock, pts, now)
    /\ Return(t)
    /\ UNCHANGED now

\* get_time(); called from pause() its value is stored by pause(), which then
\* marks the clock not running.
GetTimeBody(t) ==
    /\ pc[t] = "body" /\ op[t] \in {"get_time", "pause.get_time"}
    /\ clock' = IF op[t] = "pause.get_time"
                THEN clock_pause_store(clock, clock_get_time(clock, now))
                ELSE clock
    /\ Return(t)
    /\ UNCHANGED now

IsRunningBody(t) ==
    /\ pc[t] = "body" /\ op[t] = "is_running"
    /\ Return(t)
    /\ UNCHANGED <<clock, now>>

StopBody(t) ==
    /\ pc[t] = "body" /\ op[t] = "stop"
    /\ clock' = clock_stop(clock)
    /\ Return(t)
    /\ UNCHANGED now

\* The wall clock advances.
Tick ==
    /\ now < MaxWall
    /\ now' = now + 1
    /\ UNCHANGED <<clock, clock_lock, pc, op>>

ClockInit ==
    /\ clock = PlaybackClock_init
    /\ clock_lock = NoThread
    /\ now = 0
    /\ pc = [t \in Threads |-> "idle"]
    /\ op = [t \in Threads |-> "none"]

\* ---- the history kept of the clock's calls

NoObs == [valid |-> FALSE, val |-> 0, running |-> FALSE,
          prev |-> -1, after |-> "none", target |-> 0]
NoAnchor == [kind |-> "none", target |-> 0, was_running |-> FALSE]

HistoryInit ==
    /\ obs = NoObs
    /\ anchor = NoAnchor
    /\ since_mut = -1
    /\ streak = 0
    /\ after_first = PlaybackClock_init

\* A method other than pause() has changed the clock: what the history
\* variables were following is over.
Mutated ==
    /\ obs' = NoObs
    /\ since_mut' = -1
    /\ streak' = 0
    /\ after_first' = PlaybackClock_init

\* A pause() call has returned and left the clock as c.
PauseReturned(c) ==
    /\ streak' = IF streak < 2 THEN streak + 1 ELSE 2
    /\ after_first' = IF streak = 0 THEN c ELSE after_first

(***************************************************************************)
(* SyncController                                                          *)
(***************************************************************************)
NoFrame == -1

\* SyncController._frame_duration, in ticks
FrameDuration == 1

\* frame_queue.get / get_nowait on a queue that is not empty
queue_get_lifo(q) ==
    [item |-> q[Len(q)], rest |-> SubSeq(q, 1, Len(q) - 1)]

queue_get(q) ==
    [item |-> Head(q), rest |-> Tail(q)]

\* _sync_loop lines 160 and 166: a frame is late
is_late(frame_pts, cur) == frame_pts < cur - FrameDuration

should_display_noClockCheck(running, clock_running) == running

\* _sync_loop line 187: the re-check before on_frame_ready
should_display(running, clock_running) == running /\ clock_running

\* _sync_loop lines 175-184: with time left until the frame is due the thread
\* sleeps and then spins on the clock, else it goes straight to the re-check
after_frame(frame_pts, cur) ==
    IF frame_pts - cur > 0 THEN "spin" ELSE "recheck"

\* The sync thread's clock calls only read: each needs the lock to be free.
ClockLockFree == clock_lock = NoThread

\* The sync thread waits for its frame to become due.
WaitingForDue == spc = "spin"

SyncInit ==
    /\ frame_queue = <<>>
    /\ sync_running = FALSE
    /\ frames_displayed = 0
    /\ frames_dropped = 0
    /\ spc = "not_started"
    /\ frame = NoFrame
    /\ current_time = 0
    /\ running_seen = FALSE
    /\ clock_seen = FALSE
    /\ ctl_then = "none"
    /\ n_produced = 0
    /\ last_pts = 0
    /\ held_late = FALSE
    /\ interrupted = FALSE
    /\ last_shown = -1

\* ---- the controller's thread
\* Every clock method runs under the clock's lock, and so does every clock
\* call of the sync thread: a controller method's clock call is one step here.

CtlIdle == pc["ctl"] = "idle" /\ ctl_then = "none"

\* SyncController.start: set _running, start the clock, start the thread.
\* The controller is started once.
SyncStart(start_pts) ==
    /\ CtlIdle /\ ClockLockFree
    /\ spc = "not_started"
    /\ sync_running' = TRUE
    /\ clock' = clock_start(clock, start_pts, now)
    /\ spc' = "loop_top"
    /\ UNCHANGED <<decVars, audioVars, playerVars, stepVars, file_fault, audio_len, master_volume, dec_lock, clock_lock, now, pc, op, clockHistory, frame_queue,
                   frames_displayed, frames_dropped, frame, current_time,
                   running_seen, clock_seen, ctl_then, n_produced, last_pts,
                   held_late, interrupted, last_shown>>

\* SyncController.pause -> PlaybackClock.pause: on a running clock the call
\* takes the lock and then waits for it in its own get_time(); on a clock that
\* is not running it returns. A pause() that returns while the sync thread
\* waits for its frame to become due is noted.
SyncPause ==
    /\ CtlIdle /\ ClockLockFree
    /\ IF clock.is_running
       THEN /\ clock_lock' = "ctl"
            /\ pc' = [pc EXCEPT !["ctl"] = "acquire"]
            /\ op' = [op EXCEPT !["ctl"] = "pause.get_time"]
            /\ UNCHANGED interrupted
       ELSE /\ interrupted' = IF WaitingForDue THEN TRUE ELSE interrupted
            /\ UNCHANGED <<clock_lock, pc, op>>
    /\ UNCHANGED <<decVars, audioVars, playerVars, stepVars, file_fault, audio_len, master_volume, dec_lock, clock, now, clockHistory, frame_queue, sync_running,
                   frames_displayed, frames_dropped, spc, frame, current_time,
                   running_seen, clock_seen, ctl_then, n_produced, last_pts,
                   held_late, last_shown>>

\* SyncController.resume -> PlaybackClock.resume
SyncResume ==
    /\ CtlIdle /\ ClockLockFree
    /\ clock' = clock_resume(clock, now)
    /\ UNCHANGED <<clock_lock, now, pc, op, clockHistory, syncVars, decVars, audioVars, playerVars, stepVars, file_fault, audio_len, master_volume, dec_lock>>

\* SyncController.seek -> PlaybackClock.seek
SyncSeek(pts) ==
    /\ CtlIdle /\ ClockLockFree
    /\ clock' = clock_seek(clock, pts, now)
    /\ UNCHANGED <<clock_lock, now, pc, op, clockHistory, syncVars, decVars, audioVars, playerVars, stepVars, file_fault, audio_len, master_volume, dec_lock>>

\* SyncController.stop: self._running = False
SyncStop ==
    /\ CtlIdle
    /\ sync_running' = FALSE
    /\ ctl_then' = "stop_clock"
    /\ UNCHANGED <<decVars, audioVars, playerVars, stepVars, file_fault, audio_len, master_volume, dec_lock, clockVars, frame_queue, frames_displayed, frames_dropped,
                   spc, frame, current_time, running_seen, clock_seen,
                   n_produced, last_pts, held_late, interrupted, last_shown>>

\* SyncController.stop: self.clock.stop(). A stop() that gets here while the
\* sync thread waits for its frame to become due is noted.
SyncStopClock ==
    /\ ctl_then = "stop_clock" /\ ClockLockFree
    /\ clock' = clock_stop(clock)
    /\ ctl_then' = "join"
    /\ interrupted' = IF WaitingForDue THEN TRUE ELSE interrupted
    /\ UNCHANGED <<decVars, audioVars, playerVars, stepVars, file_fault, audio_len, master_volume, dec_lock, clock_lock, now, pc, op, clockHistory, frame_queue,
                   sync_running, frames_displayed, frames_dropped, spc, frame,
                   current_time, running_seen, clock_seen, n_produced,
                   last_pts, held_late, last_shown>>

\* SyncController.stop: join(timeout=1.0) returns, the thread ended or not.
SyncJoin ==
    /\ ctl_then = "join"
    /\ ctl_then' = "none"
    /\ UNCHANGED <<decVars, audioVars, playerVars, stepVars, file_fault, audio_len, master_volume, dec_lock, clockVars, frame_queue, sync_running, frames_displayed,
                   frames_dropped, spc, frame, current_time, running_seen,
                   clock_seen, n_produced, last_pts, held_late, interrupted,
                   last_shown>>

\* ---- the producer: frames enter the queue in non-decreasing pts order
Produce(p) ==
    /\ n_produced < MaxFrames
    /\ Len(frame_queue) < MaxQueue
    /\ p >= last_pts
    /\ frame_queue' = Append(frame_queue, p)
    /\ n_produced' = n_produced + 1
    /\ last_pts' = p
    /\ UNCHANGED <<decVars, audioVars, playerVars, stepVars, file_fault, audio_len, master_volume, dec_lock, clockVars, sync_running, frames_displayed, frames_dropped,
                   spc, frame, current_time, running_seen, clock_seen,
                   ctl_then, held_late, interrupted, last_shown>>

\* ---- the sync thread: _sync_loop

\* while self._running:
S_LoopTop ==
    /\ spc = "loop_top"
    /\ spc' = IF sync_running THEN "check_clock" ELSE "exited"
    /\ UNCHANGED <<decVars, audioVars, playerVars, stepVars, file_fault, audio_len, master_volume, dec_lock, clockVars, frame_queue, sync_running, frames_displayed,
                   frames_dropped, frame, current_time, running_seen,
                   clock_seen, ctl_then, n_produced, last_pts, held_late,
                   interrupted, last_shown>>

\* if not self.clock.is_running(): sleep; continue
S_CheckClock ==
    /\ spc = "check_clock"
    /\ ClockLockFree
    /\ spc' = IF clock.is_running THEN "read_time" ELSE "loop_top"
    /\ UNCHANGED <<decVars, audioVars, playerVars, stepVars, file_fault, audio_len, master_volume, dec_lock, clockVars, frame_queue, sync_running, frames_displayed,
                   frames_dropped, frame, current_time, running_seen,
                   clock_seen, ctl_then, n_produced, last_pts, held_late,
                   interrupted, last_shown>>

\* current_time = self.clock.get_time()
S_ReadTime ==
    /\ spc = "read_time"
    /\ ClockLockFree
    /\ current_time' = clock_get_time(clock, now)
    /\ spc' = "get_frame"
    /\ UNCHANGED <<decVars, audioVars, playerVars, stepVars, file_fault, audio_len, master_volume, dec_lock, clockVars, frame_queue, sync_running, frames_displayed,
                   frames_dropped, frame, running_seen, clock_seen, ctl_then,
                   n_produced, last_pts, held_late, interrupted, last_shown>>

\* frame = self.frame_queue.get(timeout=0.05), or queue.Empty; a frame that
\* is late is counted dropped and the thread goes on to catch up
S_GetFrame ==
    /\ spc = "get_frame"
    /\ IF frame_queue # <<>>
       THEN LET f == queue_get(frame_queue).item IN
            /\ frame' = f
            /\ frame_queue' = queue_get(frame_queue).rest
            /\ IF is_late(f, current_time)
               THEN /\ frames_dropped' = frames_dropped + 1
                    /\ held_late' = TRUE
                    /\ spc' = "catch_up"
               ELSE /\ spc' = after_frame(f, current_time)
                    /\ UNCHANGED <<frames_dropped, held_late>>
       ELSE /\ spc' = "empty_check"
            /\ UNCHANGED <<frame, frame_queue, frames_dropped, held_late>>
    /\ UNCHANGED <<decVars, audioVars, playerVars, stepVars, file_fault, audio_len, master_volume, dec_lock, clockVars, sync_running, frames_displayed, current_time,
                   running_seen, clock_seen, ctl_then, n_produced, last_pts,
                   interrupted, last_shown>>

\* except queue.Empty: if not self._running or not self.clock.is_running():
\* continue; sleep; continue
S_EmptyCheck ==
    /\ spc = "empty_check"
    /\ sync_running => ClockLockFree
    /\ spc' = "loop_top"
    /\ current_time' = 0
    /\ UNCHANGED <<decVars, audioVars, playerVars, stepVars, file_fault, audio_len, master_volume, dec_lock, clockVars, frame_queue, sync_running, frames_displayed,
                   frames_dropped, frame, running_seen, clock_seen, ctl_then,
                   n_produced, last_pts, held_late, interrupted, last_shown>>

\* while not self.frame_queue.empty() and self._running: take the next frame;
\* keep it and break if it is not late, else count it dropped
S_CatchUp ==
    /\ spc = "catch_up"
    /\ IF frame_queue # <<>> /\ sync_running
       THEN LET next_frame == queue_get(frame_queue).item IN
            /\ frame_queue' = queue_get(frame_queue).rest
            /\ IF ~is_late(next_frame, current_time)
               THEN /\ frame' = next_frame
                    /\ held_late' = FALSE
                    /\ spc' = after_frame(next_frame, current_time)
                    /\ UNCHANGED frames_dropped
               ELSE /\ frames_dropped' = frames_dropped + 1
                    /\ UNCHANGED <<frame, held_late, spc>>
       ELSE /\ spc' = after_frame(frame, current_time)
            /\ UNCHANGED <<frame_queue, frame, held_late, frames_dropped>>
    /\ UNCHANGED <<decVars, audioVars, playerVars, stepVars, file_fault, audio_len, master_volume, dec_lock, clockVars, sync_running, frames_displayed, current_time,
                   running_seen, clock_seen, ctl_then, n_produced, last_pts,
                   interrupted, last_shown>>

\* while self.clock.get_time() < display_time and self._running: pass
S_Spin ==
    /\ spc = "spin"
    /\ ClockLockFree
    /\ ~(clock_get_time(clock, now) < frame /\ sync_running)
    /\ spc' = "recheck"
    /\ UNCHANGED <<decVars, audioVars, playerVars, stepVars, file_fault, audio_len, master_volume, dec_lock, clockVars, frame_queue, sync_running, frames_displayed,
                   frames_dropped, frame, current_time, running_seen,
                   clock_seen, ctl_then, n_produced, last_pts, held_late,
                   interrupted, last_shown>>

\* if self.on_frame_ready and self._running and ...: the read of self._running
S_Recheck ==
    /\ spc = "recheck"
    /\ running_seen' = sync_running
    /\ spc' = IF sync_running THEN "recheck_clock" ELSE "pos_update"
    /\ UNCHANGED <<decVars, audioVars, playerVars, stepVars, file_fault, audio_len, master_volume, dec_lock, clockVars, frame_queue, sync_running, frames_displayed,
                   frames_dropped, frame, current_time, clock_seen, ctl_then,
                   n_produced, last_pts, held_late, interrupted, last_shown>>

\* ... and self.clock.is_running():
S_RecheckClock ==
    /\ spc = "recheck_clock"
    /\ ClockLockFree
    /\ clock_seen' = clock.is_running
    /\ spc' = IF should_display(running_seen, clock.is_running)
              THEN "display" ELSE "pos_update"
    /\ UNCHANGED <<decVars, audioVars, playerVars, stepVars, file_fault, audio_len, master_volume, dec_lock, clockVars, frame_queue, sync_running, frames_displayed,
                   frames_dropped, frame, current_time, running_seen, ctl_then,
                   n_produced, last_pts, held_late, interrupted, last_shown>>

\* self.on_frame_ready(frame); self._frames_displayed += 1
S_Display ==
    /\ spc = "display"
    /\ last_shown' = frame
    /\ frames_displayed' = frames_displayed + 1
    /\ spc' = "pos_update"
    /\ UNCHANGED <<decVars, audioVars, playerVars, stepVars, file_fault, audio_len, master_volume, dec_lock, clockVars, frame_queue, sync_running, frames_dropped,
                   frame, current_time, running_seen, clock_seen, ctl_then,
                   n_produced, last_pts, held_late, interrupted>>

\* The position callback is due at every tenth displayed frame, scaled down.
UpdateEvery == 2

position_update_due_whenStopped(displayed, running) ==
    displayed % UpdateEvery = 0

\* self._frames_displayed % 10 == 0 and self._running (on_position_update
\* is set): this round of the loop calls on_position_update(frame_pts)
position_update_due(displayed, running) ==
    displayed % UpdateEvery = 0 /\ running

\* if self.on_position_update and self._frames_displayed % 10 == 0 and
\* self._running: self.on_position_update(frame_pts), a callback that
\* changes nothing here; then the next round, which assigns the loop's
\* locals anew
S_PosUpdate ==
    /\ spc = "pos_update"
    /\ spc' = "loop_top"
    /\ frame' = NoFrame
    /\ current_time' = 0
    /\ running_seen' = FALSE
    /\ clock_seen' = FALSE
    /\ held_late' = FALSE
    /\ interrupted' = FALSE
    /\ UNCHANGED <<decVars, audioVars, playerVars, stepVars, file_fault, audio_len, master_volume, dec_lock, clockVars, frame_queue, sync_running, frames_displayed,
                   frames_dropped, ctl_then, n_produced, last_pts, last_shown>>

(***************************************************************************)
(* VideoDecoder                                                            *)
(*                                                                         *)
(* Frame i of the file has pts i (in ticks of one frame duration, so       *)
(* pts * fps is the frame's index). What the thread does under             *)
(* VideoDecoder._lock is one step, and so is seek(), which takes the same  *)
(* lock.                                                                   *)
(***************************************************************************)

\* Distance, in frames, from one keyframe of the file to the next.
KeyInterval == 2

\* self.duration: 0.0 until open() has read it from the container
Duration == IF container = "none" THEN 0 ELSE VideoLen

\* What may be wrong with the file the decoder is given.
FileFaults == {"none", "bad_frame", "bad_seek"}

\* Index of the frame whose decoding raises, in a file with a bad frame.
BadFrame == 1

\* The positions handed to seek(): some lie outside the file.
SeekArgs == -1..(VideoLen + 1)

\* seek(): max(0.0, min(position, self.duration))
clamp(position, duration) ==
    IF position < 0 THEN 0
    ELSE IF position > duration THEN duration ELSE position

\* container.seek(target_ts, stream=...): to the keyframe at or before it
keyframe_before(target) == target - (target % KeyInterval)

\* run(): pts = float(frame.pts * time_base) if frame.pts else
\* frame_number / self.fps
frame_pts(f, fn) == IF f # 0 THEN f ELSE fn

\* resume(): if not self._running: return; self._paused = False
resume_paused_always(running, paused) == FALSE

resume_paused(running, paused) == IF running THEN FALSE ELSE paused

\* is_finished: self._finished and not self._running
is_finished(finished, running) == finished /\ ~running

\* run(), handling a seek: while not self.frame_queue.empty(): get_nowait()
queue_clear_keeps(q) == q

queue_clear(q) == <<>>

\* run(), a frame failing to decode: except Exception as e: print(...);
\* continue, which goes to the head of the while loop
after_decode_error_ends(running) == "finally"

after_decode_error(running) == "loop_top"

\* The thread is inside run()'s while loop.
LoopStates == {"loop_top", "pause_poll", "check_running", "seek_check",
               "seeking", "decode_next", "for_running", "for_seek",
               "for_pause", "for_running2", "put", "putting"}

DecoderInit ==
    /\ container = "none"
    /\ container_pos = 0
    /\ dec_running = FALSE
    /\ dec_paused = FALSE
    /\ dec_finished = FALSE
    /\ seek_requested = FALSE
    /\ seek_target = 0
    /\ dec_queue = <<>>
    /\ dpc = "not_started"
    /\ dec_frame = NoFrame
    /\ frame_number = 0
    /\ dctl = "idle"
    /\ closed_decode \in {"error", "eof"}
    /\ stop_state = "none"
    /\ seek_pending = FALSE
    /\ seek_handled = FALSE
    /\ frame_stale = FALSE
    /\ dec_queue_stale = <<>>
    /\ dec_resumed = FALSE
    /\ dec_lock = "free"
    /\ file_fault \in FileFaults

\* The decoder as constructed, in the specifications it takes no part in.
DecoderIdle == DecoderInit /\ closed_decode = "error" /\ file_fault = "none"

\* ---- the thread that owns the decoder

\* VideoDecoder.open(): av.open() gives the container, or raises
DecOpen(ok) ==
    /\ dctl = "idle"
    /\ container = "none"
    /\ dpc = "not_started"
    /\ container' = IF ok THEN "open" ELSE "none"
    /\ UNCHANGED <<container_pos, dec_running, dec_paused, dec_finished,
                   seek_requested, seek_target, dec_queue, dpc, dec_frame,
                   frame_number, dctl, closed_decode, stop_state,
                   seek_pending,
                   seek_handled, frame_stale, dec_queue_stale, dec_resumed>>
    /\ UNCHANGED <<clockVars, syncVars, audioVars, playerVars, stepVars, file_fault, audio_len, master_volume, dec_lock>>

\* Thread.start(): returns once the thread has been started, before run()
\* has executed anything
DecStart ==
    /\ dctl = "idle"
    /\ dpc = "not_started"
    /\ dpc' = "run_entry"
    /\ UNCHANGED <<container, container_pos, dec_running, dec_paused,
                   dec_finished, seek_requested, seek_target, dec_queue,
                   dec_frame, frame_number, dctl, closed_decode, stop_state,
                   seek_pending,
                   seek_handled, frame_stale, dec_queue_stale, dec_resumed>>
    /\ UNCHANGED <<clockVars, syncVars, audioVars, playerVars, stepVars, file_fault, audio_len, master_volume, dec_lock>>

\* VideoDecoder.seek(position). A request made while the thread is in its
\* loop with _running set and stop() never called is noted.
DecSeek(position) ==
    /\ dctl = "idle"
    /\ dec_lock = "free"
    /\ seek_target' = clamp(position, Duration)
    /\ seek_requested' = TRUE
    /\ dec_finished' = FALSE
    /\ seek_pending' = IF dpc \in LoopStates /\ dec_running
                          /\ stop_state = "none"
                       THEN TRUE ELSE seek_pending
    /\ UNCHANGED <<container, container_pos, dec_running, dec_paused,
                   dec_queue, dpc, dec_frame, frame_number, dctl,
                   closed_decode, stop_state,
                   seek_handled, frame_stale, dec_queue_stale, dec_resumed>>
    /\ UNCHANGED <<clockVars, syncVars, audioVars, playerVars, stepVars, file_fault, audio_len, master_volume, dec_lock>>

\* VideoDecoder.pause()
DecPause ==
    /\ dctl = "idle"
    /\ dec_paused' = TRUE
    /\ UNCHANGED <<container, container_pos, dec_running, dec_finished,
                   seek_requested, seek_target, dec_queue, dpc, dec_frame,
                   frame_number, dctl, closed_decode, stop_state,
                   seek_pending,
                   seek_handled, frame_stale, dec_queue_stale, dec_resumed>>
    /\ UNCHANGED <<clockVars, syncVars, audioVars, playerVars, stepVars, file_fault, audio_len, master_volume, dec_lock>>

\* VideoDecoder.resume(): does nothing when _running is not set
DecResume ==
    /\ dctl = "idle"
    /\ dec_paused' = resume_paused(dec_running, dec_paused)
    /\ dec_resumed' = IF is_finished(dec_finished, dec_running)
                      THEN TRUE ELSE dec_resumed
    /\ UNCHANGED <<container, container_pos, dec_running, dec_finished,
                   seek_requested, seek_target, dec_queue, dpc, dec_frame,
                   frame_number, dctl, closed_decode, stop_state,
                   seek_pending,
                   seek_handled, frame_stale, dec_queue_stale>>
    /\ UNCHANGED <<clockVars, syncVars, audioVars, playerVars, stepVars, file_fault, audio_len, master_volume, dec_lock>>

\* VideoDecoder.stop(): self._running = False; self._paused = False
DecStop ==
    /\ dctl = "idle"
    /\ dec_running' = FALSE
    /\ dec_paused' = FALSE
    /\ dctl' = "closing"
    /\ stop_state' = IF dpc = "not_started" THEN "unstarted" ELSE "started"
    /\ seek_pending' = FALSE
    /\ UNCHANGED <<container, container_pos, dec_finished, seek_requested,
                   seek_target, dec_queue, dpc, dec_frame, frame_number,
                   closed_decode,
                   seek_handled, frame_stale, dec_queue_stale, dec_resumed>>
    /\ UNCHANGED <<clockVars, syncVars, audioVars, playerVars, stepVars, file_fault, audio_len, master_volume, dec_lock>>

\* VideoDecoder.stop(): if self.container: self.container.close(), the
\* attribute keeping the closed container; _close_step_container();
\* clear_frame_cache()
DecStopClose ==
    /\ dctl = "closing"
    /\ container' = IF container = "none" THEN "none" ELSE "closed"
    /\ dctl' = "idle"
    /\ step_container' = FALSE
    /\ step_pos' = 1
    /\ frame_cache' = <<>>
    /\ step_decoder' = FALSE
    /\ step_last_pts' = -1
    /\ step_returned' = NoFrame
    /\ step_decoded' = {}
    /\ forward_run' = 0
    /\ UNCHANGED <<container_pos, dec_running, dec_paused, dec_finished,
                   seek_requested, seek_target, dec_queue, dpc, dec_frame,
                   frame_number, closed_decode, stop_state, seek_pending,
                   seek_handled, frame_stale, dec_queue_stale, dec_resumed>>
    /\ UNCHANGED <<clockVars, syncVars, audioVars, playerVars, step_file,
                   step_rate, file_fault, audio_len, master_volume, dec_lock>>

\* The display side takes a frame from the queue.
DecConsume ==
    /\ dec_queue # <<>>
    /\ dec_queue' = Tail(dec_queue)
    /\ dec_queue_stale' = Tail(dec_queue_stale)
    /\ UNCHANGED <<container, container_pos, dec_running, dec_paused,
                   dec_finished, seek_requested, seek_target, dpc, dec_frame,
                   frame_number, dctl, closed_decode, stop_state,
                   seek_pending,
                   seek_handled, frame_stale, dec_resumed>>
    /\ UNCHANGED <<clockVars, syncVars, audioVars, playerVars, stepVars, file_fault, audio_len, master_volume, dec_lock>>

\* ---- the decode thread: run()

\* if not self.container or not self.video_stream: return
\* self._running = True; self._finished = False; frame_number = 0
D_RunEntry ==
    /\ dpc = "run_entry"
    /\ IF container = "none"
       THEN /\ dpc' = "terminated"
            /\ UNCHANGED <<dec_running, dec_finished, frame_number>>
       ELSE /\ dec_running' = TRUE
            /\ dec_finished' = FALSE
            /\ frame_number' = 0
            /\ dpc' = "loop_top"
    /\ UNCHANGED <<container, container_pos, dec_paused, seek_requested,
                   seek_target, dec_queue, dec_frame, dctl, closed_decode,
                   stop_state, seek_pending,
                   seek_handled, frame_stale, dec_queue_stale, dec_resumed>>
    /\ UNCHANGED <<clockVars, syncVars, audioVars, playerVars, stepVars, file_fault, audio_len, master_volume, dec_lock>>

\* while self._running:
D_LoopTop ==
    /\ dpc = "loop_top"
    /\ dpc' = IF dec_running THEN "pause_poll" ELSE "finally"
    /\ UNCHANGED <<container, container_pos, dec_running, dec_paused,
                   dec_finished, seek_requested, seek_target, dec_queue,
                   dec_frame, frame_number, dctl, closed_decode, stop_state,
                   seek_pending,
                   seek_handled, frame_stale, dec_queue_stale, dec_resumed>>
    /\ UNCHANGED <<clockVars, syncVars, audioVars, playerVars, stepVars, file_fault, audio_len, master_volume, dec_lock>>

\* while self._paused and self._running: time.sleep(PAUSE_POLL_INTERVAL)
D_PausePoll ==
    /\ dpc = "pause_poll"
    /\ ~(dec_paused /\ dec_running)
    /\ dpc' = "check_running"
    /\ UNCHANGED <<container, container_pos, dec_running, dec_paused,
                   dec_finished, seek_requested, seek_target, dec_queue,
                   dec_frame, frame_number, dctl, closed_decode, stop_state,
                   seek_pending,
                   seek_handled, frame_stale, dec_queue_stale, dec_resumed>>
    /\ UNCHANGED <<clockVars, syncVars, audioVars, playerVars, stepVars, file_fault, audio_len, master_volume, dec_lock>>

\* if not self._running: break
D_CheckRunning ==
    /\ dpc = "check_running"
    /\ dpc' = IF dec_running THEN "seek_check" ELSE "finally"
    /\ UNCHANGED <<container, container_pos, dec_running, dec_paused,
                   dec_finished, seek_requested, seek_target, dec_queue,
                   dec_frame, frame_number, dctl, closed_decode, stop_state,
                   seek_pending,
                   seek_handled, frame_stale, dec_queue_stale, dec_resumed>>
    /\ UNCHANGED <<clockVars, syncVars, audioVars, playerVars, stepVars, file_fault, audio_len, master_volume, dec_lock>>

\* with self._lock: if self._seek_requested: ... The thread takes the lock,
\* which no seek() holds across steps, and reads the flag; with no request
\* it leaves the block at once, and with one it goes into _perform_seek()
\* holding the lock.
D_SeekCheck ==
    /\ dpc = "seek_check"
    /\ dec_lock = "free"
    /\ dpc' = IF seek_requested THEN "seeking" ELSE "decode_next"
    /\ dec_lock' = IF seek_requested THEN "thread" ELSE "free"
    /\ UNCHANGED <<container, container_pos, dec_running, dec_paused,
                   dec_finished, seek_requested, seek_target, dec_queue,
                   dec_frame, frame_number, dctl, closed_decode, stop_state,
                   seek_pending,
                   seek_handled, frame_stale, dec_queue_stale, dec_resumed>>
    /\ UNCHANGED <<clockVars, syncVars, audioVars, playerVars, stepVars, file_fault, audio_len, master_volume>>

\* _perform_seek() returns: container.seek() has moved the container, or
\* has raised (a closed container, a timestamp the container rejects) and
\* the error was printed. Then, still inside the with block: clear the flag,
\* frame_number = int(self._seek_target * self.fps), empty the queue; and
\* the lock is released.
D_SeekDone ==
    /\ dpc = "seeking"
    /\ container_pos' = IF container = "open" /\ file_fault # "bad_seek"
                        THEN keyframe_before(seek_target)
                        ELSE container_pos
    /\ seek_requested' = FALSE
    /\ frame_number' = seek_target
    /\ dec_queue' = queue_clear(dec_queue)
    /\ seek_pending' = FALSE
    /\ seek_handled' = TRUE
    /\ frame_stale' = (dec_frame # NoFrame)
    /\ dec_queue_stale' = [i \in 1..Len(dec_queue') |-> TRUE]
    /\ dec_lock' = "free"
    /\ dpc' = "decode_next"
    /\ UNCHANGED <<container, dec_running, dec_paused, dec_finished,
                   seek_target, dec_frame, dctl, closed_decode, stop_state,
                   dec_resumed>>
    /\ UNCHANGED <<clockVars, syncVars, audioVars, playerVars, stepVars, file_fault, audio_len, master_volume>>

\* for frame in self.container.decode(video=0): the next frame, or the end of
\* the stream (the for's else and except EOFError both set _finished, clear
\* _running and break), or, on a closed container, what closed_decode says:
\* an exception that is printed before the while loop goes on, or EOFError.
\* A frame that fails to decode raises too: its packet has been read, and
\* the next call of decode() goes on behind it.
D_DecodeNext ==
    /\ dpc = "decode_next"
    /\ IF container = "closed" /\ closed_decode = "error"
       THEN /\ dpc' = "loop_top"
            /\ UNCHANGED <<container_pos, dec_frame, dec_finished,
                           dec_running, frame_stale>>
       ELSE IF /\ container = "open" /\ container_pos < VideoLen
               /\ file_fault = "bad_frame" /\ container_pos = BadFrame
       THEN /\ container_pos' = container_pos + 1
            /\ dpc' = after_decode_error(dec_running)
            /\ UNCHANGED <<dec_frame, dec_finished, dec_running,
                           frame_stale>>
       ELSE IF container = "open" /\ container_pos < VideoLen
       THEN /\ dec_frame' = container_pos
            /\ container_pos' = container_pos + 1
            /\ frame_stale' = FALSE
            /\ dpc' = "for_running"
            /\ UNCHANGED <<dec_finished, dec_running>>
       ELSE /\ dec_finished' = TRUE
            /\ dec_running' = FALSE
            /\ dpc' = "finally"
            /\ UNCHANGED <<container_pos, dec_frame, frame_stale>>
    /\ UNCHANGED <<container, dec_paused, seek_requested, seek_target,
                   dec_queue, frame_number, dctl, closed_decode, stop_state,
                   seek_pending,
                   seek_handled, dec_queue_stale, dec_resumed>>
    /\ UNCHANGED <<clockVars, syncVars, audioVars, playerVars, stepVars, file_fault, audio_len, master_volume, dec_lock>>

\* if not self._running: break
D_ForRunning ==
    /\ dpc = "for_running"
    /\ dpc' = IF dec_running THEN "for_seek" ELSE "loop_top"
    /\ dec_frame' = IF dec_running THEN dec_frame ELSE NoFrame
    /\ UNCHANGED <<container, container_pos, dec_running, dec_paused,
                   dec_finished, seek_requested, seek_target, dec_queue,
                   frame_number, dctl, closed_decode, stop_state,
                   seek_pending,
                   seek_handled, frame_stale, dec_queue_stale, dec_resumed>>
    /\ UNCHANGED <<clockVars, syncVars, audioVars, playerVars, stepVars, file_fault, audio_len, master_volume, dec_lock>>

\* with self._lock: if self._seek_requested: break
D_ForSeek ==
    /\ dpc = "for_seek"
    /\ dpc' = IF seek_requested THEN "loop_top" ELSE "for_pause"
    /\ dec_frame' = IF seek_requested THEN NoFrame ELSE dec_frame
    /\ UNCHANGED <<container, container_pos, dec_running, dec_paused,
                   dec_finished, seek_requested, seek_target, dec_queue,
                   frame_number, dctl, closed_decode, stop_state,
                   seek_pending,
                   seek_handled, frame_stale, dec_queue_stale, dec_resumed>>
    /\ UNCHANGED <<clockVars, syncVars, audioVars, playerVars, stepVars, file_fault, audio_len, master_volume, dec_lock>>

\* while self._paused and self._running: time.sleep(PAUSE_POLL_INTERVAL)
D_ForPause ==
    /\ dpc = "for_pause"
    /\ ~(dec_paused /\ dec_running)
    /\ dpc' = "for_running2"
    /\ UNCHANGED <<container, container_pos, dec_running, dec_paused,
                   dec_finished, seek_requested, seek_target, dec_queue,
                   dec_frame, frame_number, dctl, closed_decode, stop_state,
                   seek_pending,
                   seek_handled, frame_stale, dec_queue_stale, dec_resumed>>
    /\ UNCHANGED <<clockVars, syncVars, audioVars, playerVars, stepVars, file_fault, audio_len, master_volume, dec_lock>>

\* if not self._running: break
D_ForRunning2 ==
    /\ dpc = "for_running2"
    /\ dpc' = IF dec_running THEN "put" ELSE "loop_top"
    /\ dec_frame' = IF dec_running THEN dec_frame ELSE NoFrame
    /\ UNCHANGED <<container, container_pos, dec_running, dec_paused,
                   dec_finished, seek_requested, seek_target, dec_queue,
                   frame_number, dctl, closed_decode, stop_state,
                   seek_pending,
                   seek_handled, frame_stale, dec_queue_stale, dec_resumed>>
    /\ UNCHANGED <<clockVars, syncVars, audioVars, playerVars, stepVars, file_fault, audio_len, master_volume, dec_lock>>

\* while self._running and not self._seek_requested and not self._paused:
\* the thread reads the three flags and goes into frame_queue.put(), or
\* leaves the loop with the frame not put; frame_number += 1
D_PutLoop ==
    /\ dpc = "put"
    /\ IF dec_running /\ ~seek_requested /\ ~dec_paused
       THEN /\ dpc' = "putting"
            /\ UNCHANGED <<frame_number, dec_frame>>
       ELSE /\ frame_number' = frame_number + 1
            /\ dec_frame' = NoFrame
            /\ dpc' = "decode_next"
    /\ UNCHANGED <<container, container_pos, dec_running, dec_paused,
                   dec_finished, seek_requested, seek_target, dec_queue,
                   dctl, closed_decode, stop_state, seek_pending,
                   seek_handled, frame_stale, dec_queue_stale, dec_resumed>>
    /\ UNCHANGED <<clockVars, syncVars, audioVars, playerVars, stepVars, file_fault, audio_len, master_volume, dec_lock>>

\* self.frame_queue.put(video_frame, timeout=QUEUE_PUT_TIMEOUT): the frame
\* goes on the queue as soon as there is room, whatever the flags have
\* become since they were read, and the loop is left: frame_number += 1;
\* or the queue stays full for the timeout, queue.Full: continue
D_Put ==
    /\ dpc = "putting"
    /\ IF Len(dec_queue) < DecQueueMax
       THEN /\ dec_queue' = Append(dec_queue, frame_pts(dec_frame, frame_number))
            /\ dec_queue_stale' = Append(dec_queue_stale, frame_stale)
            /\ frame_number' = frame_number + 1
            /\ dec_frame' = NoFrame
            /\ dpc' = "decode_next"
       ELSE /\ dpc' = "put"
            /\ UNCHANGED <<dec_queue, dec_queue_stale, frame_number,
                           dec_frame>>
    /\ UNCHANGED <<container, container_pos, dec_running, dec_paused,
                   dec_finished, seek_requested, seek_target, dctl,
                   closed_decode, stop_state, seek_pending,
                   seek_handled, frame_stale, dec_resumed>>
    /\ UNCHANGED <<clockVars, syncVars, audioVars, playerVars, stepVars, file_fault, audio_len, master_volume, dec_lock>>

\* finally: self._finished = True, and run() returns
D_Finally ==
    /\ dpc = "finally"
    /\ dec_finished' = TRUE
    /\ dpc' = "terminated"
    /\ UNCHANGED <<container, container_pos, dec_running, dec_paused,
                   seek_requested, seek_target, dec_queue, dec_frame,
                   frame_number, dctl, closed_decode, stop_state,
                   seek_pending,
                   seek_handled, frame_stale, dec_queue_stale, dec_resumed>>
    /\ UNCHANGED <<clockVars, syncVars, audioVars, playerVars, stepVars, file_fault, audio_len, master_volume, dec_lock>>

\* The steps of the decode thread of a worker that is never asked to seek.
DecThreadStepNoSeek ==
    \/ D_RunEntry
    \/ D_LoopTop
    \/ D_PausePoll
    \/ D_CheckRunning
    \/ D_SeekCheck
    \/ D_DecodeNext
    \/ D_ForRunning
    \/ D_ForSeek
    \/ D_ForPause
    \/ D_ForRunning2
    \/ D_PutLoop
    \/ D_Put
    \/ D_Finally

\* The steps of the decode thread.
DecThreadStep ==
    \/ DecThreadStepNoSeek
    \/ D_SeekDone

DecoderNext ==
    \/ \E ok \in BOOLEAN : DecOpen(ok)
    \/ DecStart
    \/ \E position \in SeekArgs : DecSeek(position)
    \/ DecPause
    \/ DecResume
    \/ DecStop
    \/ DecStopClose
    \/ DecConsume
    \/ DecThreadStep


(***************************************************************************)
(* AudioTrackPlayer and AudioManager                                       *)
(*                                                                         *)
(* Chunk i of a track has pts i and every sample of it is 1; a volume is   *)
(* counted in halves, so FullVolume stands for 1.0 and an output value is  *)
(* sample * volume. What a worker's thread does under its _lock is one     *)
(* step, and each AudioManager method, a loop over the players, is one     *)
(* step of the thread that owns the manager.                               *)
(***************************************************************************)

\* The audio tracks of the file, by their position among its audio streams.
TrackIds == {0, 1}

\* The track ids handed to set_track_volume and set_track_muted: one of them
\* is the id of no track.
TrackArgs == TrackIds \cup {2}

\* set_volume: the upper end of max(0.0, min(1.0, volume))
FullVolume == 2

\* The volumes handed to set_track_volume: one below 0.0, one half, one
\* above 1.0.
VolumeArgs == {-1, 1, FullVolume + 1}

\* The positions handed to seek_all.
AudioSeekArgs == 0..AudioLen

\* AudioTrackPlayer.__init__
AudioTrackPlayer_init ==
    [pc |-> "not_started", running |-> FALSE, paused |-> FALSE,
     finished |-> FALSE, volume |-> FullVolume, muted |-> FALSE,
     seek_requested |-> FALSE, seek_target |-> 0, container |-> "none",
     pos |-> 0, chunk |-> NoFrame, queue |-> <<>>, sd_stream |-> "none",
     current_pts |-> 0, sought |-> FALSE]

\* AudioTrackPlayer.open() that succeeds
player_opened(w) == [w EXCEPT !.container = "open"]

\* AudioTrackPlayer.set_volume
player_set_volume(w, volume) == [w EXCEPT !.volume = clamp(volume, FullVolume)]

\* AudioTrackPlayer.set_muted
player_set_muted(w, muted) == [w EXCEPT !.muted = muted]

\* AudioTrackPlayer.pause
player_pause(w) == [w EXCEPT !.paused = TRUE]

\* AudioTrackPlayer.resume
player_resume(w) ==
    [w EXCEPT !.paused = resume_paused(w.running, w.paused)]

\* AudioTrackPlayer.seek, under the lock
player_seek(w, position) ==
    [w EXCEPT !.seek_target = position, !.seek_requested = TRUE]

\* AudioTrackPlayer.stop
player_stop(w) == [w EXCEPT !.running = FALSE, !.paused = FALSE]

\* threading.Thread.start()
player_start(w) == [w EXCEPT !.pc = "run_entry"]

\* Thread.is_alive()
is_alive(w) == w.pc \notin {"not_started", "terminated"}

\* Thread.ident is not None
has_ident(w) == w.pc # "not_started"

\* _audio_callback: what it writes to outdata
callback_output(w) ==
    IF w.paused \/ w.queue = <<>> \/ w.muted THEN 0 ELSE w.volume

\* _audio_callback: the chunk it takes from the queue, whose pts becomes
\* current_pts, muted or not (sought is history: the thread has performed a
\* seek since the callback last took a chunk)
player_callback_mutedKeepsPts(w) ==
    IF w.paused \/ w.queue = <<>> THEN w
    ELSE IF w.muted THEN [w EXCEPT !.queue = Tail(w.queue), !.sought = FALSE]
    ELSE [w EXCEPT !.queue = Tail(w.queue), !.current_pts = Head(w.queue),
                   !.sought = FALSE]

player_callback(w) ==
    IF w.paused \/ w.queue = <<>> THEN w
    ELSE [w EXCEPT !.queue = Tail(w.queue), !.current_pts = Head(w.queue),
                   !.sought = FALSE]

\* AudioManager.set_track_volume
manager_set_track_volume_all(ws, ps, track_id, volume) ==
    [t \in TrackIds |->
        IF t \in ps THEN player_set_volume(ws[t], volume) ELSE ws[t]]

manager_set_track_volume(ws, ps, track_id, volume) ==
    [t \in TrackIds |->
        IF t = track_id /\ t \in ps
        THEN player_set_volume(ws[t], volume) ELSE ws[t]]

\* AudioManager.set_track_muted
manager_set_track_muted(ws, ps, track_id, muted) ==
    [t \in TrackIds |->
        IF t = track_id /\ t \in ps
        THEN player_set_muted(ws[t], muted) ELSE ws[t]]

\* discover_tracks: the list of the first n audio tracks of the file
discovered(n) == {t \in TrackIds : t < n}

\* initialize_all_tracks: the keys of self.players after it, on a manager
\* that had no players: the discovered tracks whose open() succeeded
initialize_players_keepsFailed(tracks, opens) == tracks

initialize_players(tracks, opens) == tracks \cap opens

\* initialize_all_tracks: return len(self.players) > 0
initialize_result(ps) == ps # {}

\* AudioManager.__init__ and initialize_all_tracks: a new AudioTrackPlayer,
\* opened, for each of ps; the other ids have no worker
manager_new_players(ps) ==
    [t \in TrackIds |->
        IF t \in ps THEN player_opened(AudioTrackPlayer_init)
        ELSE AudioTrackPlayer_init]

\* AudioManager.start_all
manager_start_all(ws, ps) ==
    [t \in TrackIds |-> IF t \in ps THEN player_start(ws[t]) ELSE ws[t]]

\* AudioManager.pause_all
manager_pause_all(ws, ps) ==
    [t \in TrackIds |-> IF t \in ps THEN player_pause(ws[t]) ELSE ws[t]]

\* AudioManager.resume_all
manager_resume_all(ws, ps) ==
    [t \in TrackIds |-> IF t \in ps THEN player_resume(ws[t]) ELSE ws[t]]

\* AudioManager.seek_all
manager_seek_all(ws, ps, position) ==
    [t \in TrackIds |->
        IF t \in ps THEN player_seek(ws[t], position) ELSE ws[t]]

\* AudioManager.stop_all
manager_stop_all(ws, ps) ==
    [t \in TrackIds |-> IF t \in ps THEN player_stop(ws[t]) ELSE ws[t]]

\* AudioManager.__init__, with a worker to be for each track id
ManagerInit ==
    /\ aw = [t \in TrackIds |-> AudioTrackPlayer_init]
    /\ players = {}
    /\ track_info = {}
    /\ am_initialized = FALSE
    /\ init_result = FALSE
    /\ aw_resumed = FALSE

\* The audio side as constructed, for a file of AudioLen chunks a stream
AudioInit == ManagerInit /\ audio_len = AudioLen


(***************************************************************************)
(* VideoPlayer                                                             *)
(*                                                                         *)
(* The handlers of the player run on the GUI thread, one at a time: each   *)
(* is one step. The decode thread and the audio workers' threads take      *)
(* their steps between them. When the player replaces a worker by a new    *)
(* instance the variables of the worker describe the new instance, and the *)
(* thread of the old one is followed no further.                           *)
(***************************************************************************)

\* VideoPlayer.__init__
PlayerInit ==
    /\ is_playing = FALSE
    /\ player_pts = 0
    /\ play_clock = 0
    /\ pending_frame = NoFrame
    /\ has_decoder = FALSE
    /\ has_manager = FALSE
    /\ player_duration = 0
    /\ timers_on = FALSE
    /\ start_pending = FALSE
    /\ file_ok = FALSE
    /\ started_twice = FALSE
    /\ last_cmd = "none"
    /\ master_volume = FullVolume

(***************************************************************************)
(* VideoDecoder: the frame-stepping path                                   *)
(*                                                                         *)
(* get_frame_at_position() reads the file through a container of its own.  *)
(* Here a pts is a whole number of ticks, FrameTicks of them to one frame  *)
(* duration (1 / fps), so that half a frame duration, the tolerance        *)
(* 0.5 / self.fps, can be told from the 0.001 s of _add_to_cache(): one    *)
(* tick is longer than a millisecond, and two pts are within 0.001 of each *)
(* other only when they are equal.                                         *)
(***************************************************************************)

\* Ticks in one frame duration.
FrameTicks == 4
\* Frames per second of a file of ordinary rate.
StepFps == 1
\* Frames in the file that is stepped through.
StepLen == 4
\* FRAME_CACHE_SIZE, scaled down.
CacheSize == 2

\* A file whose frames are spaced one frame duration apart
RegularFile == [i \in 1..StepLen |-> (i - 1) * FrameTicks]

\* The same file with one more frame, a tick behind its second frame
JitterFile == [i \in 1..(StepLen + 1) |->
                  IF i <= 2 THEN (i - 1) * FrameTicks
                  ELSE IF i = 3 THEN FrameTicks + 1
                  ELSE (i - 2) * FrameTicks]

StepFiles == {RegularFile, JitterFile}

\* The frame rates of the files, as frames in two seconds: half a frame per
\* second, and StepFps frames per second
StepRates == {1, 2 * StepFps}

\* self.duration of a file
file_duration(f) == f[Len(f)] + FrameTicks

\* The arguments of get_frame_at_position(): the times of the frames of a
\* regular file and the time half a frame duration after its second frame;
\* no current_pts is -1.0, and none is given with direction 0, which does
\* not read it
StepTimes == {i * FrameTicks : i \in 0..(StepLen - 1)}
                 \cup {FrameTicks + (FrameTicks \div 2)}
StepTargets == StepTimes \cup {StepLen * FrameTicks}
StepCurrents == StepTimes \cup {-1}
StepDirections == {-1, 0, 1}

abs(x) == IF x < 0 THEN -x ELSE x

pts_set(s) == {s[i] : i \in 1..Len(s)}

\* self._frame_cache.sort(key=lambda f: f.pts)
RECURSIVE sort_by_pts(_)
sort_by_pts(s) ==
    IF s = <<>> THEN <<>>
    ELSE LET least == CHOOSE i \in 1..Len(s) :
                         /\ \A j \in 1..Len(s) : s[i] <= s[j]
                         /\ \A j \in 1..(i - 1) : s[j] # s[i]
         IN <<s[least]>> \o
            sort_by_pts([k \in 1..(Len(s) - 1) |->
                            IF k < least THEN s[k] ELSE s[k + 1]])

\* while len(self._frame_cache) > FRAME_CACHE_SIZE: self._frame_cache.pop(0)
cache_trim_none(c) == c

cache_trim(c) ==
    IF Len(c) > CacheSize THEN SubSeq(c, Len(c) - CacheSize + 1, Len(c))
    ELSE c

\* _add_to_cache(frame): nothing for a frame within 0.001 s of a cached one
add_to_cache(c, pts) ==
    IF \E i \in 1..Len(c) : c[i] = pts THEN c
    ELSE cache_trim(sort_by_pts(Append(c, pts)))

\* _get_from_cache(target_pts): the first frame within 0.5 / fps of it
get_from_cache(c, target) ==
    LET hits == {i \in 1..Len(c) : 2 * abs(c[i] - target) < FrameTicks}
    IN IF hits = {} THEN NoFrame
       ELSE c[CHOOSE i \in hits : \A j \in hits : i <= j]

\* _get_adjacent_from_cache(current_pts, direction): forward, the first
\* frame more than 0.5 / fps after current_pts; backward, the last of the
\* frames at the head of the list that are more than 0.5 / fps before it
get_adjacent_from_cache(c, current, direction) ==
    IF direction > 0
    THEN LET hits == {i \in 1..Len(c) : 2 * (c[i] - current) > FrameTicks}
         IN IF hits = {} THEN NoFrame
            ELSE c[CHOOSE i \in hits : \A j \in hits : i <= j]
    ELSE LET head == {n \in 0..Len(c) :
                         \A i \in 1..n : 2 * (current - c[i]) > FrameTicks}
             final == CHOOSE n \in head : \A m \in head : m <= n
         IN IF final = 0 THEN NoFrame ELSE c[final]

\* can_continue: the step decoder exists, has decoded a frame, and the
\* target is after that frame and less than 2.0 s after it
can_continue(direction, decoder, prev_pts, target) ==
    /\ direction >= 0
    /\ decoder
    /\ prev_pts >= 0
    /\ target > prev_pts
    /\ target - prev_pts < step_rate * FrameTicks

\* self._step_container.seek(target_ts, backward=True): the index of the
\* last keyframe at or before the target
step_seek(f, target) ==
    LET keys == {i \in 1..Len(f) : (i - 1) % KeyInterval = 0 /\ f[i] <= target}
    IN IF keys = {} THEN 1 ELSE CHOOSE i \in keys : \A j \in keys : j <= i

\* for frame in self._step_decoder: ... from the frame at index pos on:
\* each frame decoded becomes _step_last_pts and goes to the cache, and the
\* first at or past target_pts - 0.5 / fps is returned; None when the frames
\* run out; a frame that fails to decode raises
RECURSIVE decode_until(_, _, _, _, _, _, _)
decode_until(f, pos, c, prev_pts, decoded, target, bad) ==
    IF pos > Len(f)
    THEN [ret |-> NoFrame, pos |-> pos, cache |-> c, prev_pts |-> prev_pts,
          decoded |-> decoded, raised |-> FALSE]
    ELSE IF pos = bad
    THEN [ret |-> NoFrame, pos |-> pos + 1, cache |-> c,
          prev_pts |-> prev_pts, decoded |-> decoded, raised |-> TRUE]
    ELSE IF 2 * f[pos] >= 2 * target - FrameTicks
    THEN [ret |-> f[pos], pos |-> pos + 1, cache |-> add_to_cache(c, f[pos]),
          prev_pts |-> f[pos], decoded |-> decoded \cup {f[pos]},
          raised |-> FALSE]
    ELSE decode_until(f, pos + 1, add_to_cache(c, f[pos]), f[pos],
                      decoded \cup {f[pos]}, target, bad)

\* _ensure_step_container(): the stepping path opens a container of its own
\* with av.open(self.file_path), and seeks and decodes on that one: the
\* position of the live container after a call that left the step container
\* at step_end is the position it had
ensure_step_container_sharesLive(live_pos, step_end) ==
    IF step_end - 1 <= VideoLen THEN step_end - 1 ELSE VideoLen

ensure_step_container(live_pos, step_end) == live_pos

\* VideoDecoder.__init__: no step container, an empty cache
StepInit ==
    /\ step_file \in StepFiles
    /\ step_rate \in StepRates
    /\ frame_cache = <<>>
    /\ step_container = FALSE
    /\ step_decoder = FALSE
    /\ step_pos = 1
    /\ step_last_pts = -1
    /\ step_returned = NoFrame
    /\ step_decoded = {}
    /\ forward_run = 0

\* The stepping path as constructed, in the specifications that never
\* call it.
StepIdle == StepInit /\ step_file = RegularFile /\ step_rate = 2 * StepFps

DecoderInitAll == ClockInit /\ HistoryInit /\ SyncInit /\ DecoderInit
                    /\ AudioInit /\ PlayerInit /\ StepIdle

DecoderSpec == DecoderInitAll /\ [][DecoderNext]_vars

\* The decode thread keeps running, and a stop() under way goes on to close
\* the container.
FairDecoderSpec ==
    DecoderSpec /\ WF_vars(DecThreadStep) /\ WF_vars(DecStopClose)


\* ---- the thread that owns the manager

\* AudioManager.discover_tracks: n audio tracks are found, none if the
\* container cannot be opened
M_DiscoverTracks(n) ==
    /\ ~am_initialized
    /\ track_info' = discovered(n)
    /\ UNCHANGED <<aw, players, am_initialized, init_result, aw_resumed>>
    /\ UNCHANGED <<clockVars, syncVars, decVars, playerVars, stepVars, file_fault, audio_len, master_volume, dec_lock>>

\* AudioManager.initialize_all_tracks, on a manager just made: opens is the
\* set of tracks whose open() succeeds, n what discover_tracks finds if the
\* manager has no track info yet
M_InitializeAllTracks(n, opens) ==
    /\ ~am_initialized
    /\ LET tracks == IF track_info = {} THEN discovered(n) ELSE track_info
           ps == initialize_players(tracks, opens)
       IN /\ track_info' = tracks
          /\ players' = ps
          /\ aw' = manager_new_players(ps)
          /\ init_result' = initialize_result(ps)
    /\ am_initialized' = TRUE
    /\ UNCHANGED aw_resumed
    /\ UNCHANGED <<clockVars, syncVars, decVars, playerVars, stepVars, file_fault, audio_len, master_volume, dec_lock>>

\* AudioManager.start_all. Thread.start() raises on a thread that was
\* started before: the program calls start_all where no player has been.
M_StartAll ==
    /\ players # {}
    /\ \A t \in players : ~has_ident(aw[t])
    /\ aw' = manager_start_all(aw, players)
    /\ UNCHANGED <<players, track_info, am_initialized, init_result,
                   aw_resumed>>
    /\ UNCHANGED <<clockVars, syncVars, decVars, playerVars, stepVars, file_fault, audio_len, master_volume, dec_lock>>

\* AudioManager.pause_all
M_PauseAll ==
    /\ players # {}
    /\ aw' = manager_pause_all(aw, players)
    /\ UNCHANGED <<players, track_info, am_initialized, init_result,
                   aw_resumed>>
    /\ UNCHANGED <<clockVars, syncVars, decVars, playerVars, stepVars, file_fault, audio_len, master_volume, dec_lock>>

\* AudioManager.resume_all. A resume() of a finished worker is noted.
M_ResumeAll ==
    /\ players # {}
    /\ aw' = manager_resume_all(aw, players)
    /\ aw_resumed' = IF \E t \in players :
                            is_finished(aw[t].finished, aw[t].running)
                     THEN TRUE ELSE aw_resumed
    /\ UNCHANGED <<players, track_info, am_initialized, init_result>>
    /\ UNCHANGED <<clockVars, syncVars, decVars, playerVars, stepVars, file_fault, audio_len, master_volume, dec_lock>>

\* AudioManager.seek_all
M_SeekAll(position) ==
    /\ players # {}
    /\ aw' = manager_seek_all(aw, players, position)
    /\ UNCHANGED <<players, track_info, am_initialized, init_result,
                   aw_resumed>>
    /\ UNCHANGED <<clockVars, syncVars, decVars, playerVars, stepVars, file_fault, audio_len, master_volume, dec_lock>>

\* AudioManager.stop_all
M_StopAll ==
    /\ players # {}
    /\ aw' = manager_stop_all(aw, players)
    /\ UNCHANGED <<players, track_info, am_initialized, init_result,
                   aw_resumed>>
    /\ UNCHANGED <<clockVars, syncVars, decVars, playerVars, stepVars, file_fault, audio_len, master_volume, dec_lock>>

\* AudioManager.set_track_volume
M_SetTrackVolume(track_id, volume) ==
    /\ am_initialized
    /\ aw' = manager_set_track_volume(aw, players, track_id, volume)
    /\ UNCHANGED <<players, track_info, am_initialized, init_result,
                   aw_resumed>>
    /\ UNCHANGED <<clockVars, syncVars, decVars, playerVars, stepVars, file_fault, audio_len, master_volume, dec_lock>>

\* AudioManager.set_track_muted
M_SetTrackMuted(track_id, muted) ==
    /\ am_initialized
    /\ aw' = manager_set_track_muted(aw, players, track_id, muted)
    /\ UNCHANGED <<players, track_info, am_initialized, init_result,
                   aw_resumed>>
    /\ UNCHANGED <<clockVars, syncVars, decVars, playerVars, stepVars, file_fault, audio_len, master_volume, dec_lock>>

\* ---- a worker's thread: AudioTrackPlayer.run()

\* What a step of worker t's thread leaves alone.
OnlyWorkerChanges ==
    /\ UNCHANGED <<players, track_info, am_initialized, init_result,
                   aw_resumed>>
    /\ UNCHANGED <<clockVars, syncVars, decVars, playerVars, stepVars, file_fault, audio_len, master_volume, dec_lock>>

\* if not self.container or not self.audio_stream: return
\* self._running = True; self._finished = False; the resampler; then
\* sd.OutputStream(...).start(), which raises if the device cannot be
\* opened: the error is printed and run() returns
A_RunEntry(t, device_ok) ==
    /\ aw[t].pc = "run_entry"
    /\ LET w == aw[t]
       IN aw' = [aw EXCEPT ![t] =
                 IF w.container = "none"
                 THEN [w EXCEPT !.pc = "terminated"]
                 ELSE IF device_ok
                 THEN [w EXCEPT !.running = TRUE, !.finished = FALSE,
                                !.sd_stream = "started", !.pc = "loop_top"]
                 ELSE [w EXCEPT !.running = TRUE, !.finished = FALSE,
                                !.pc = "terminated"]]
    /\ OnlyWorkerChanges

\* while self._running: while self._paused and self._running: sleep
\* if not self._running: break
A_LoopTop(t) ==
    /\ aw[t].pc = "loop_top"
    /\ ~(aw[t].paused /\ aw[t].running)
    /\ aw' = [aw EXCEPT ![t].pc = IF aw[t].running THEN "seek_check"
                                  ELSE "finally"]
    /\ OnlyWorkerChanges

\* with self._lock: if self._seek_requested: _perform_seek(), clear the
\* flag, empty the queue
A_SeekCheck(t) ==
    /\ aw[t].pc = "seek_check"
    /\ LET w == aw[t]
       IN aw' = [aw EXCEPT ![t] =
                 IF w.seek_requested
                 THEN [w EXCEPT !.pos = clamp(w.seek_target, audio_len),
                                !.seek_requested = FALSE,
                                !.queue = queue_clear(w.queue),
                                !.sought = TRUE, !.pc = "demux"]
                 ELSE [w EXCEPT !.pc = "demux"]]
    /\ OnlyWorkerChanges

\* for packet in self.container.demux(self.audio_stream): the next packet,
\* then if not self._running: break, and under the lock
\* if self._seek_requested: break; or the end of the stream (the for's else
\* and except EOFError both set _finished, clear _running and break)
A_Demux(t) ==
    /\ aw[t].pc = "demux"
    /\ LET w == aw[t]
       IN aw' = [aw EXCEPT ![t] =
                 IF w.pos < audio_len
                 THEN IF w.running /\ ~w.seek_requested
                      THEN [w EXCEPT !.chunk = w.pos, !.pos = w.pos + 1,
                                     !.pc = "frame"]
                      ELSE [w EXCEPT !.pos = w.pos + 1, !.pc = "loop_top"]
                 ELSE [w EXCEPT !.finished = TRUE, !.running = FALSE,
                                !.pc = "finally"]]
    /\ OnlyWorkerChanges

\* for frame in packet.decode(): if not self._running: break
\* while self._paused and self._running: sleep
\* if not self._running: break
A_Frame(t) ==
    /\ aw[t].pc = "frame"
    /\ ~(aw[t].paused /\ aw[t].running)
    /\ LET w == aw[t]
       IN aw' = [aw EXCEPT ![t] =
                 IF w.running
                 THEN [w EXCEPT !.pc = "put"]
                 ELSE [w EXCEPT !.chunk = NoFrame, !.pc = "demux"]]
    /\ OnlyWorkerChanges

\* while self._running and not self._seek_requested and not self._paused:
\* put the chunk, trying again while the queue is full
A_Put(t) ==
    /\ aw[t].pc = "put"
    /\ (aw[t].running /\ ~aw[t].seek_requested /\ ~aw[t].paused)
          => Len(aw[t].queue) < AudioQueueMax
    /\ LET w == aw[t]
       IN aw' = [aw EXCEPT ![t] =
                 IF w.running /\ ~w.seek_requested /\ ~w.paused
                 THEN [w EXCEPT !.queue = Append(w.queue, w.chunk),
                                !.chunk = NoFrame, !.pc = "demux"]
                 ELSE [w EXCEPT !.chunk = NoFrame, !.pc = "demux"]]
    /\ OnlyWorkerChanges

\* finally: self._finished = True; stop and close the output stream if there
\* is one; close the container and forget it
A_Finally(t) ==
    /\ aw[t].pc = "finally"
    /\ LET w == aw[t]
       IN aw' = [aw EXCEPT ![t] =
                 [w EXCEPT !.finished = TRUE,
                           !.sd_stream = IF w.sd_stream = "none" THEN "none"
                                         ELSE "closed",
                           !.container = "none",
                           !.pc = "terminated"]]
    /\ OnlyWorkerChanges

\* The output stream calls _audio_callback.
A_Callback(t) ==
    /\ aw[t].sd_stream = "started"
    /\ aw' = [aw EXCEPT ![t] = player_callback(aw[t])]
    /\ OnlyWorkerChanges

\* The steps of the thread of worker t.
AudioThreadStep(t) ==
    \/ \E device_ok \in BOOLEAN : A_RunEntry(t, device_ok)
    \/ A_LoopTop(t)
    \/ A_SeekCheck(t)
    \/ A_Demux(t)
    \/ A_Frame(t)
    \/ A_Put(t)
    \/ A_Finally(t)

\* The manager's commands of the workers' life cycle, the workers' threads
\* and their output streams.
AudioNext ==
    \/ \E n \in 0..Cardinality(TrackIds) : M_DiscoverTracks(n)
    \/ \E n \in 0..Cardinality(TrackIds), opens \in SUBSET TrackIds :
          M_InitializeAllTracks(n, opens)
    \/ M_StartAll
    \/ M_PauseAll
    \/ M_ResumeAll
    \/ \E position \in AudioSeekArgs : M_SeekAll(position)
    \/ M_StopAll
    \/ \E t \in TrackIds : AudioThreadStep(t)
    \/ \E t \in TrackIds : A_Callback(t)

AudioInitAll == ClockInit /\ HistoryInit /\ SyncInit /\ DecoderIdle
                  /\ AudioInit /\ PlayerInit /\ StepIdle

AudioSpec == AudioInitAll /\ [][AudioNext]_vars

\* The volume and mute controls of the tracks while the tracks play.
MixerNext ==
    \/ \E n \in 0..Cardinality(TrackIds), opens \in SUBSET TrackIds :
          M_InitializeAllTracks(n, opens)
    \/ M_StartAll
    \/ M_PauseAll
    \/ \E track_id \in TrackArgs, volume \in VolumeArgs :
          M_SetTrackVolume(track_id, volume)
    \/ \E track_id \in TrackArgs, muted \in BOOLEAN :
          M_SetTrackMuted(track_id, muted)
    \/ \E t \in TrackIds : AudioThreadStep(t)
    \/ \E t \in TrackIds : A_Callback(t)

MixerSpec == AudioInitAll /\ [][MixerNext]_vars

\* The output stream's callback while the track is muted, paused and
\* sought: a file with one audio track, of one more chunk, so that a seek
\* can be performed after the chunk behind the first has been played.
CallbackNext ==
    \/ \E opens \in SUBSET TrackIds : M_InitializeAllTracks(1, opens)
    \/ M_StartAll
    \/ M_PauseAll
    \/ M_ResumeAll
    \/ \E position \in AudioSeekArgs : M_SeekAll(position)
    \/ \E track_id \in TrackArgs, muted \in BOOLEAN :
          M_SetTrackMuted(track_id, muted)
    \/ \E t \in TrackIds : AudioThreadStep(t)
    \/ \E t \in TrackIds : A_Callback(t)

CallbackInitAll ==
    /\ ClockInit /\ HistoryInit /\ SyncInit /\ DecoderIdle
    /\ ManagerInit /\ audio_len = AudioLen + 1 /\ PlayerInit /\ StepIdle

CallbackSpec == CallbackInitAll /\ [][CallbackNext]_vars

\* The video worker has decoded the whole file, was paused as it finished,
\* had resume() called on it after that, and its thread has ended.
VideoWorkerEnded ==
    /\ dpc = "terminated"
    /\ dctl = "idle"
    /\ dec_finished /\ ~dec_running /\ dec_paused /\ dec_resumed
    /\ ~seek_requested /\ seek_target = 0
    /\ ~seek_pending /\ ~seek_handled /\ ~frame_stale
    /\ stop_state = "none"
    /\ closed_decode = "error"
    /\ container = "open" /\ container_pos = VideoLen
    /\ dec_frame = NoFrame /\ frame_number = VideoLen
    /\ dec_queue = <<>> /\ dec_queue_stale = <<>>
    /\ file_fault = "none" /\ dec_lock = "free"

\* No audio manager has been set up yet.
NoAudioYet == ~am_initialized /\ track_info = {}

\* The two kinds of worker one after the other: the video worker and its
\* owner, and once the video worker has ended, the audio workers and their
\* manager.
WorkerNext ==
    \/ NoAudioYet /\ DecoderNext
    \/ VideoWorkerEnded /\ AudioNext

WorkerSpec == DecoderInitAll /\ [][WorkerNext]_vars

\* VideoDecoder's thread: is_alive()
decoder_is_alive == dpc \notin {"not_started", "terminated"}

\* _get_playback_time
get_playback_time == IF is_playing THEN play_clock ELSE player_pts

\* play(): at_end. A pts is a whole number of ticks and one tick is more than
\* 0.01 s, so current_pts >= duration - 0.01 is current_pts >= duration.
at_end_never(alive, running, current_pts, duration) == FALSE

at_end(alive, running, current_pts, duration) ==
    ~alive /\ ~running /\ current_pts >= duration

\* The positions handed to seek(): the slider and skip_time() keep them
\* within 0 .. _duration.
PlayerSeekArgs == 0..VideoLen

\* A file is given by the number of its audio tracks and the set of those
\* whose open() succeeds. A file with no audio track:
SilentFiles == {<<0, {}>>}

\* Files with audio: one track; two tracks of which the first cannot be
\* opened.
AudioFiles == {<<1, {0}>>, <<2, {1}>>}

\* VideoDecoder(...): a new instance in place of the old one, with what
\* open(), seek() and start() then make of it
NewDecoder(cont, sreq, starget, thread) ==
    /\ container' = cont
    /\ container_pos' = 0
    /\ dec_running' = FALSE
    /\ dec_paused' = FALSE
    /\ dec_finished' = FALSE
    /\ seek_requested' = sreq
    /\ seek_target' = starget
    /\ dec_queue' = <<>>
    /\ dpc' = thread
    /\ dec_frame' = NoFrame
    /\ frame_number' = 0
    /\ dctl' = "idle"
    /\ stop_state' = "none"
    /\ seek_pending' = FALSE
    /\ seek_handled' = FALSE
    /\ frame_stale' = FALSE
    /\ dec_queue_stale' = <<>>
    /\ dec_resumed' = FALSE
    /\ UNCHANGED closed_decode

\* initialize_all_tracks(), seek_all(position), start_all() on a new manager
restart_players(ps, position) ==
    manager_start_all(manager_seek_all(manager_new_players(ps), ps, position),
                      ps)

\* AudioManager(file_path), discover_tracks() and, if it found tracks,
\* initialize_all_tracks(): a new manager in place of the old one
NewManager(tracks, opens) ==
    LET ps == IF tracks = {} THEN {} ELSE initialize_players(tracks, opens)
    IN /\ players' = ps
       /\ track_info' = tracks
       /\ am_initialized' = (tracks # {})
       /\ init_result' = initialize_result(ps)
       /\ aw_resumed' = FALSE

\* No manager: what stop() and a failed open_file() leave.
NoManager ==
    /\ aw' = [t \in TrackIds |-> AudioTrackPlayer_init]
    /\ players' = {}
    /\ track_info' = {}
    /\ am_initialized' = FALSE
    /\ init_result' = FALSE
    /\ aw_resumed' = FALSE

\* stop(): what it does to the decoder and to the frame queue
StopDecoder ==
    /\ dec_running' = FALSE
    /\ dec_paused' = FALSE
    /\ container' = IF container = "none" THEN "none" ELSE "closed"
    /\ stop_state' = IF dpc = "not_started" THEN "unstarted" ELSE "started"
    /\ seek_pending' = FALSE
    /\ dec_queue' = <<>>
    /\ dec_queue_stale' = <<>>
    /\ UNCHANGED <<container_pos, dec_finished, seek_requested, seek_target,
                   dpc, dec_frame, frame_number, dctl, closed_decode,
                   seek_handled, frame_stale, dec_resumed>>

\* open_file(file_path): stop(), a new VideoDecoder and its open(); if that
\* succeeds a new AudioManager, discover_tracks() finding the first n tracks
\* and initialize_all_tracks(), opens being the tracks whose open() succeeds
P_OpenFile(ok, n, opens) ==
    /\ is_playing' = FALSE
    /\ timers_on' = FALSE
    /\ play_clock' = 0
    /\ player_pts' = 0
    /\ pending_frame' = NoFrame
    /\ NewDecoder(IF ok THEN "open" ELSE "none", FALSE, 0, "not_started")
    /\ has_decoder' = TRUE
    /\ player_duration' = IF ok THEN VideoLen ELSE player_duration
    /\ file_ok' = ok
    /\ IF ok
       THEN /\ NewManager(discovered(n), opens)
            /\ aw' = manager_new_players(players')
            /\ has_manager' = TRUE
       ELSE /\ NoManager
            /\ has_manager' = FALSE
    /\ last_cmd' = "open"
    /\ dec_lock' = "free"
    /\ UNCHANGED <<start_pending, started_twice>>
    /\ UNCHANGED <<stepVars, file_fault, audio_len, master_volume, clockVars, syncVars>>

\* _start_playback(), past its first test: the timing, the audio workers,
\* the timers. A manager made anew for the same file discovers the tracks
\* the old one did, and the tracks that opened before open again.
StartPlaybackBody ==
    /\ play_clock' = player_pts
    /\ timers_on' = TRUE
    /\ IF has_manager /\ players # {}
       THEN IF \E t \in players : ~is_alive(aw[t]) /\ has_ident(aw[t])
            THEN /\ NewManager(track_info, players)
                 /\ aw' = restart_players(players', player_pts)
                 /\ last_cmd' = "restart_audio"
            ELSE IF ~(\E t \in players : is_alive(aw[t]))
            THEN /\ aw' = manager_start_all(aw, players)
                 /\ last_cmd' = "start_playback"
                 /\ UNCHANGED <<players, track_info, am_initialized,
                                init_result, aw_resumed>>
            ELSE /\ aw' = manager_resume_all(aw, players)
                 /\ aw_resumed' =
                       IF \E t \in players :
                             is_finished(aw[t].finished, aw[t].running)
                       THEN TRUE ELSE aw_resumed
                 /\ last_cmd' = "start_playback"
                 /\ UNCHANGED <<players, track_info, am_initialized,
                                init_result>>
       ELSE /\ last_cmd' = "start_playback"
            /\ UNCHANGED audioVars

\* Playback has run to the end of the file: the decode thread has finished
\* and ended, and the position timer's slot has paused the player.
PlayedToEnd ==
    last_cmd = "auto_pause" /\ dpc = "terminated" /\ dec_finished

\* play(). Thread.start() on a thread that was started before raises
\* RuntimeError: play() is left there, after it has set _is_playing.
P_Play ==
    /\ has_decoder
    /\ IF at_end(decoder_is_alive, dec_running, player_pts, Duration)
       THEN /\ last_cmd' = IF PlayedToEnd THEN "play_after_end"
                           ELSE "play_at_end"
            /\ UNCHANGED <<is_playing, player_pts, play_clock, pending_frame,
                           has_decoder, has_manager, player_duration,
                           timers_on, start_pending, file_ok, started_twice>>
            /\ UNCHANGED <<decVars, audioVars>>
       ELSE IF is_playing
       THEN /\ last_cmd' = "play"
            /\ UNCHANGED <<is_playing, player_pts, play_clock, pending_frame,
                           has_decoder, has_manager, player_duration,
                           timers_on, start_pending, file_ok, started_twice>>
            /\ UNCHANGED <<decVars, audioVars>>
       ELSE /\ is_playing' = TRUE
            /\ IF dpc = "not_started"
               THEN /\ dpc' = "run_entry"
                    /\ start_pending' = TRUE
                    /\ last_cmd' = "play"
                    /\ UNCHANGED <<container, container_pos, dec_running,
                                   dec_paused, dec_finished, seek_requested,
                                   seek_target, dec_queue, dec_frame,
                                   frame_number, dctl, closed_decode,
                                   stop_state, seek_pending, seek_handled,
                                   frame_stale, dec_queue_stale, dec_resumed>>
                    /\ UNCHANGED <<play_clock, timers_on, started_twice>>
                    /\ UNCHANGED audioVars
               ELSE IF dpc = "terminated"
               THEN /\ started_twice' = TRUE
                    /\ last_cmd' = IF PlayedToEnd THEN "play_after_end"
                                   ELSE "play"
                    /\ UNCHANGED <<play_clock, timers_on, start_pending>>
                    /\ UNCHANGED <<decVars, audioVars>>
               ELSE /\ dec_paused' = resume_paused(dec_running, dec_paused)
                    /\ dec_resumed' =
                          IF is_finished(dec_finished, dec_running)
                          THEN TRUE ELSE dec_resumed
                    /\ UNCHANGED <<container, container_pos, dec_running,
                                   dec_finished, seek_requested, seek_target,
                                   dec_queue, dpc, dec_frame, frame_number,
                                   dctl, closed_decode, stop_state,
                                   seek_pending, seek_handled, frame_stale,
                                   dec_queue_stale>>
                    /\ StartPlaybackBody
                    /\ UNCHANGED <<start_pending, started_twice>>
            /\ UNCHANGED <<player_pts, pending_frame, has_decoder,
                           has_manager, player_duration, file_ok>>
    /\ UNCHANGED <<stepVars, file_fault, audio_len, master_volume, dec_lock, clockVars, syncVars>>

\* The single shot set by play() fires: _start_playback()
P_StartPlayback ==
    /\ start_pending
    /\ start_pending' = FALSE
    /\ IF is_playing
       THEN StartPlaybackBody
       ELSE UNCHANGED <<play_clock, timers_on, last_cmd, audioVars>>
    /\ UNCHANGED <<is_playing, player_pts, pending_frame, has_decoder,
                   has_manager, player_duration, file_ok, started_twice>>
    /\ UNCHANGED <<stepVars, file_fault, audio_len, master_volume, dec_lock, clockVars, syncVars, decVars>>

\* pause(), once it has found _is_playing set. _get_playback_time() is called
\* after _is_playing has been cleared and so returns _current_pts.
PlayerPauseBody(cmd) ==
    /\ is_playing' = FALSE
    /\ timers_on' = FALSE
    /\ play_clock' = 0
    /\ player_pts' = player_pts
    /\ IF has_decoder
       THEN /\ dec_paused' = TRUE
            /\ UNCHANGED <<container, container_pos, dec_running,
                           dec_finished, seek_requested, seek_target,
                           dec_queue, dpc, dec_frame, frame_number, dctl,
                           closed_decode, stop_state, seek_pending,
                           seek_handled, frame_stale, dec_queue_stale,
                           dec_resumed>>
       ELSE UNCHANGED decVars
    /\ IF has_manager
       THEN /\ aw' = manager_pause_all(aw, players)
            /\ UNCHANGED <<players, track_info, am_initialized, init_result,
                           aw_resumed>>
       ELSE UNCHANGED audioVars
    /\ last_cmd' = cmd
    /\ UNCHANGED <<pending_frame, has_decoder, has_manager, player_duration,
                   start_pending, file_ok, started_twice>>
    /\ UNCHANGED <<stepVars, file_fault, audio_len, master_volume, dec_lock, clockVars, syncVars>>

\* pause()
P_Pause ==
    IF is_playing
    THEN PlayerPauseBody("pause")
    ELSE /\ last_cmd' = "pause"
         /\ UNCHANGED <<is_playing, player_pts, play_clock, pending_frame,
                        has_decoder, has_manager, player_duration, timers_on,
                        start_pending, file_ok, started_twice>>
         /\ UNCHANGED <<stepVars, file_fault, audio_len, master_volume, dec_lock, clockVars, syncVars, decVars, audioVars>>

\* _update_position_display(), the position timer's slot, when the playback
\* time has reached _duration: pause()
P_PositionUpdate ==
    /\ timers_on
    /\ is_playing
    /\ get_playback_time >= player_duration
    /\ PlayerPauseBody("auto_pause")

\* seek(position). VideoDecoder.seek() of a live worker waits for the
\* worker's lock.
P_Seek(position) ==
    /\ position <= player_duration
    /\ (has_decoder /\ decoder_is_alive) => dec_lock = "free"
    /\ player_pts' = position
    /\ play_clock' = IF timers_on THEN position ELSE 0
    /\ pending_frame' = NoFrame
    /\ IF has_decoder /\ ~decoder_is_alive
       THEN /\ NewDecoder(IF file_ok THEN "open" ELSE "none", TRUE,
                          clamp(position, IF file_ok THEN VideoLen ELSE 0),
                          IF is_playing THEN "run_entry" ELSE "not_started")
            /\ IF has_manager
               THEN /\ NewManager(track_info, players)
                    /\ aw' = LET fresh == manager_new_players(players')
                                 sought == IF track_info = {} THEN fresh
                                           ELSE manager_seek_all(
                                                   fresh, players', position)
                             IN IF is_playing
                                THEN manager_start_all(sought, players')
                                ELSE sought
               ELSE UNCHANGED audioVars
       ELSE IF has_decoder
       THEN /\ seek_target' = clamp(position, Duration)
            /\ seek_requested' = TRUE
            /\ dec_finished' = FALSE
            /\ seek_pending' = IF dpc \in LoopStates /\ dec_running
                                  /\ stop_state = "none"
                               THEN TRUE ELSE seek_pending
            /\ dec_queue' = <<>>
            /\ dec_queue_stale' = <<>>
            /\ UNCHANGED <<container, container_pos, dec_running, dec_paused,
                           dpc, dec_frame, frame_number, dctl, closed_decode,
                           stop_state, seek_handled, frame_stale,
                           dec_resumed>>
            /\ IF has_manager
               THEN /\ aw' = manager_seek_all(aw, players, position)
                    /\ UNCHANGED <<players, track_info, am_initialized,
                                   init_result, aw_resumed>>
               ELSE UNCHANGED audioVars
       ELSE /\ dec_queue' = <<>>
            /\ dec_queue_stale' = <<>>
            /\ UNCHANGED <<container, container_pos, dec_running, dec_paused,
                           dec_finished, seek_requested, seek_target, dpc,
                           dec_frame, frame_number, dctl, closed_decode,
                           stop_state, seek_pending, seek_handled,
                           frame_stale, dec_resumed>>
            /\ UNCHANGED audioVars
    /\ last_cmd' = "seek"
    /\ UNCHANGED <<is_playing, has_decoder, has_manager, player_duration,
                   timers_on, start_pending, file_ok, started_twice>>
    /\ UNCHANGED <<stepVars, file_fault, audio_len, master_volume, dec_lock, clockVars, syncVars>>

\* stop(). The workers it stops are no longer the player's; their threads
\* go on to their end.
P_Stop ==
    /\ is_playing' = FALSE
    /\ timers_on' = FALSE
    /\ play_clock' = 0
    /\ IF has_decoder
       THEN StopDecoder
       ELSE /\ dec_queue' = <<>>
            /\ dec_queue_stale' = <<>>
            /\ UNCHANGED <<container, container_pos, dec_running, dec_paused,
                           dec_finished, seek_requested, seek_target, dpc,
                           dec_frame, frame_number, dctl, closed_decode,
                           stop_state, seek_pending, seek_handled,
                           frame_stale, dec_resumed>>
    /\ has_decoder' = FALSE
    /\ IF has_manager
       THEN /\ aw' = manager_stop_all(aw, players)
            /\ UNCHANGED <<players, track_info, am_initialized, init_result,
                           aw_resumed>>
       ELSE UNCHANGED audioVars
    /\ has_manager' = FALSE
    /\ player_pts' = 0
    /\ pending_frame' = NoFrame
    /\ last_cmd' = IF last_cmd = "pause" THEN "pause_stop" ELSE "stop"
    /\ UNCHANGED <<player_duration, start_pending, file_ok, started_twice>>
    /\ UNCHANGED <<stepVars, file_fault, audio_len, master_volume, dec_lock, clockVars, syncVars>>

\* _on_display_tick: how many frames at the head of the queue are due
RECURSIVE frames_due(_, _)
frames_due(q, due_time) ==
    IF q = <<>> \/ Head(q) > due_time THEN 0
    ELSE 1 + frames_due(Tail(q), due_time)

\* _on_display_tick, the display timer's slot
P_DisplayTick ==
    /\ timers_on
    /\ is_playing
    /\ LET time_now == get_playback_time
           ready == pending_frame # NoFrame /\ pending_frame <= time_now
           k == frames_due(dec_queue, time_now)
       IN IF pending_frame # NoFrame /\ ~ready
          THEN UNCHANGED <<pending_frame, dec_queue, dec_queue_stale,
                           player_pts>>
          ELSE /\ pending_frame' = IF k < Len(dec_queue)
                                   THEN dec_queue[k + 1] ELSE NoFrame
               /\ dec_queue' = SubSeq(dec_queue, k + 2, Len(dec_queue))
               /\ dec_queue_stale' =
                     SubSeq(dec_queue_stale, k + 2, Len(dec_queue_stale))
               /\ player_pts' = IF k > 0 THEN dec_queue[k]
                                ELSE IF ready THEN pending_frame
                                ELSE player_pts
    /\ UNCHANGED <<container, container_pos, dec_running, dec_paused,
                   dec_finished, seek_requested, seek_target, dpc, dec_frame,
                   frame_number, dctl, closed_decode, stop_state,
                   seek_pending, seek_handled, frame_stale, dec_resumed>>
    /\ UNCHANGED <<is_playing, play_clock, has_decoder, has_manager,
                   player_duration, timers_on, start_pending, file_ok,
                   started_twice, last_cmd>>
    /\ UNCHANGED <<stepVars, file_fault, audio_len, master_volume, dec_lock, clockVars, syncVars, audioVars>>

\* time.perf_counter() advances while the timers run.
P_Tick ==
    /\ timers_on
    /\ play_clock < MaxPlayTime
    /\ play_clock' = play_clock + 1
    /\ UNCHANGED <<is_playing, player_pts, pending_frame, has_decoder,
                   has_manager, player_duration, timers_on, start_pending,
                   file_ok, started_twice, last_cmd>>
    /\ UNCHANGED <<stepVars, file_fault, audio_len, master_volume, dec_lock, clockVars, syncVars, decVars, audioVars>>

\* The volume keys hand change_volume() one step up or one step down.
VolumeDeltas == {-1, 1}

\* change_volume(delta): nothing without a manager; else the master volume
\* moves by delta within 0.0 .. 1.0 and is set on the track ids
\* range(len(self._audio_manager.players))
P_ChangeVolume(delta) ==
    /\ IF has_manager
       THEN /\ master_volume' = clamp(master_volume + delta, FullVolume)
            /\ aw' = [t \in TrackIds |->
                         IF t \in 0..(Cardinality(players) - 1)
                         THEN manager_set_track_volume(
                                 aw, players, t, master_volume')[t]
                         ELSE aw[t]]
            /\ last_cmd' = "volume"
       ELSE UNCHANGED <<master_volume, aw, last_cmd>>
    /\ UNCHANGED <<players, track_info, am_initialized, init_result,
                   aw_resumed>>
    /\ UNCHANGED <<is_playing, player_pts, play_clock, pending_frame,
                   has_decoder, has_manager, player_duration, timers_on,
                   start_pending, file_ok, started_twice>>
    /\ UNCHANGED <<stepVars, file_fault, audio_len, dec_lock, clockVars,
                   syncVars, decVars>>

\* The player showing a file that has no audio track: its handlers, its
\* timers and the decode thread.
PlayerNext ==
    \/ \E ok \in BOOLEAN, f \in SilentFiles : P_OpenFile(ok, f[1], f[2])
    \/ P_Play
    \/ P_StartPlayback
    \/ P_Pause
    \/ P_PositionUpdate
    \/ \E position \in PlayerSeekArgs : P_Seek(position)
    \/ P_Stop
    \/ P_DisplayTick
    \/ P_Tick
    \/ DecThreadStep

PlayerInitAll == ClockInit /\ HistoryInit /\ SyncInit /\ DecoderIdle
                   /\ AudioInit /\ PlayerInit /\ StepIdle

PlayerSpec == PlayerInitAll /\ [][PlayerNext]_vars

\* The player's open, play, pause and stop commands on a file with audio,
\* before its timers have fired: the handlers, the decode thread, the audio
\* workers' threads and their output streams.
PlayerAudioNext ==
    \/ \E ok \in BOOLEAN, f \in AudioFiles : P_OpenFile(ok, f[1], f[2])
    \/ P_Play
    \/ P_StartPlayback
    \/ P_Pause
    \/ P_Stop
    \/ DecThreadStepNoSeek
    \/ \E t \in TrackIds : AudioThreadStep(t)
    \/ \E t \in TrackIds : A_Callback(t)

PlayerAudioSpec == PlayerInitAll /\ [][PlayerAudioNext]_vars

\* The player's volume keys on a file with audio, with its open, play,
\* pause and stop commands, the audio workers' threads and their output
\* streams; the decode thread takes no step.
VolumeNext ==
    \/ \E ok \in BOOLEAN, f \in AudioFiles : P_OpenFile(ok, f[1], f[2])
    \/ P_Play
    \/ P_StartPlayback
    \/ P_Pause
    \/ P_Stop
    \/ \E delta \in VolumeDeltas : P_ChangeVolume(delta)
    \/ \E t \in TrackIds : AudioThreadStep(t)
    \/ \E t \in TrackIds : A_Callback(t)

VolumeSpec == PlayerInitAll /\ [][VolumeNext]_vars

\* get_frame_at_position(target_pts, current_pts, direction), called by the
\* thread that owns the decoder, on a decoder whose open() has succeeded
\* and which has not been stopped. A container.seek() that raises and a
\* frame that fails to decode both end in the except branch:
\* _close_step_container() and None.
GetFrameAt(target_pts, current_pts, direction) ==
    /\ dctl = "idle"
    /\ container = "open"
    /\ UNCHANGED <<container, dec_running, dec_paused, dec_finished,
                   seek_requested, seek_target, dec_queue, dpc, dec_frame,
                   frame_number, dctl, closed_decode, stop_state, seek_pending,
                   seek_handled, frame_stale, dec_queue_stale, dec_resumed>>
    /\ UNCHANGED <<step_file, step_rate, file_fault, audio_len, master_volume, dec_lock>>
    /\ UNCHANGED <<clockVars, syncVars, audioVars, playerVars>>
    /\ LET target == clamp(target_pts, file_duration(step_file))
           adjacent == IF direction # 0 /\ current_pts >= 0
                       THEN get_adjacent_from_cache(frame_cache, current_pts,
                                                    direction)
                       ELSE NoFrame
           direct == get_from_cache(frame_cache, target)
           cont == can_continue(direction, step_decoder, step_last_pts, target)
           r == decode_until(step_file,
                             IF cont THEN step_pos
                             ELSE step_seek(step_file, target),
                             frame_cache, step_last_pts, {}, target,
                             IF file_fault = "bad_frame" THEN BadFrame + 1
                             ELSE 0)
           fresh == frame_cache = <<>> /\ ~step_decoder
           step == /\ direction = 1
                   /\ current_pts >= 0
                   /\ target_pts = current_pts + FrameTicks
                   /\ \/ fresh
                      \/ forward_run > 0 /\ current_pts = step_returned
       IN /\ IF adjacent # NoFrame \/ direct # NoFrame
             THEN /\ step_returned' = IF adjacent # NoFrame THEN adjacent
                                      ELSE direct
                  /\ step_decoded' = {}
                  /\ UNCHANGED <<frame_cache, step_container, step_decoder,
                                 step_pos, step_last_pts>>
             ELSE IF ~cont /\ file_fault = "bad_seek"
             THEN /\ step_returned' = NoFrame
                  /\ step_decoded' = {}
                  /\ step_container' = FALSE
                  /\ step_decoder' = FALSE
                  /\ step_pos' = 1
                  /\ step_last_pts' = -1
                  /\ UNCHANGED frame_cache
             ELSE IF r.raised
             THEN /\ step_returned' = NoFrame
                  /\ step_decoded' = r.decoded
                  /\ frame_cache' = r.cache
                  /\ step_container' = FALSE
                  /\ step_decoder' = FALSE
                  /\ step_pos' = 1
                  /\ step_last_pts' = -1
             ELSE /\ step_returned' = r.ret
                  /\ step_decoded' = r.decoded
                  /\ frame_cache' = r.cache
                  /\ step_container' = TRUE
                  /\ step_decoder' = TRUE
                  /\ step_pos' = r.pos
                  /\ step_last_pts' = r.prev_pts
          /\ forward_run' = IF step /\ step_returned' # NoFrame
                            THEN forward_run + 1 ELSE 0
    /\ container_pos' = ensure_step_container(container_pos, step_pos')

\* clear_frame_cache(): the cache is emptied, and the step decoder dropped
\* with its last pts; the step container stays open
ClearFrameCache ==
    /\ dctl = "idle"
    /\ frame_cache' = <<>>
    /\ step_decoder' = FALSE
    /\ step_last_pts' = -1
    /\ step_returned' = NoFrame
    /\ step_decoded' = {}
    /\ forward_run' = 0
    /\ UNCHANGED <<step_file, step_rate, step_container, step_pos, file_fault, audio_len, master_volume,
                   dec_lock>>
    /\ UNCHANGED <<clockVars, syncVars, decVars, audioVars, playerVars>>

\* The owner of a decoder whose thread it has not started: it opens the
\* file, steps through it, seeks, and stops the decoder.
StepNext ==
    \/ \E ok \in BOOLEAN : DecOpen(ok)
    \/ \E position \in SeekArgs : DecSeek(position)
    \/ DecStop
    \/ DecStopClose
    \/ \E target_pts \in StepTargets, current_pts \in StepCurrents,
          direction \in StepDirections :
          /\ direction = 0 => current_pts = -1
          /\ GetFrameAt(target_pts, current_pts, direction)
    \/ ClearFrameCache

StepInitAll ==
    /\ ClockInit /\ HistoryInit /\ SyncInit /\ DecoderInit
    /\ closed_decode = "error" /\ AudioInit /\ PlayerInit /\ StepInit

StepSpec == StepInitAll /\ [][StepNext]_vars

\* The owner of a decoder asks for the frames at given times (direction 0)
\* while the decode thread of the decoder is in its loop, and pauses,
\* resumes and consumes.
LiveStepNext ==
    \/ \E ok \in BOOLEAN : DecOpen(ok)
    \/ DecStart
    \/ DecPause
    \/ DecResume
    \/ DecConsume
    \/ DecThreadStepNoSeek
    \/ \E target_pts \in StepTargets :
          /\ dpc \in LoopStates
          /\ GetFrameAt(target_pts, -1, 0)

LiveStepInitAll ==
    /\ ClockInit /\ HistoryInit /\ SyncInit /\ DecoderIdle
    /\ AudioInit /\ PlayerInit /\ StepIdle

LiveStepSpec == LiveStepInitAll /\ [][LiveStepNext]_vars

(***************************************************************************)
(* ClockSpec: threads calling the PlaybackClock's methods                  *)
(***************************************************************************)
C_Call(t, o) ==
    /\ ClockCall(t, o)
    /\ UNCHANGED <<clockHistory, syncVars, decVars, audioVars, playerVars, stepVars, file_fault, audio_len, master_volume, dec_lock>>

C_Acquire(t) ==
    /\ ClockAcquire(t)
    /\ UNCHANGED <<clockHistory, syncVars, decVars, audioVars, playerVars, stepVars, file_fault, audio_len, master_volume, dec_lock>>

C_Start(t, pts) ==
    /\ StartBody(t, pts)
    /\ Mutated
    /\ anchor' = NoAnchor
    /\ UNCHANGED <<syncVars, decVars, audioVars, playerVars, stepVars, file_fault, audio_len, master_volume, dec_lock>>

C_Pause(t) ==
    /\ PauseBody(t)
    /\ IF clock.is_running
       THEN UNCHANGED <<streak, after_first>>
       ELSE PauseReturned(clock)
    /\ UNCHANGED <<obs, anchor, since_mut, syncVars, decVars, audioVars, playerVars, stepVars, file_fault, audio_len, master_volume, dec_lock>>

C_Resume(t) ==
    /\ ResumeBody(t)
    /\ Mutated
    /\ anchor' = IF clock.is_running
                 THEN NoAnchor
                 ELSE [kind |-> "resume", target |-> clock.paused_at,
                       was_running |-> FALSE]
    /\ UNCHANGED <<syncVars, decVars, audioVars, playerVars, stepVars, file_fault, audio_len, master_volume, dec_lock>>

C_Seek(t, pts) ==
    /\ SeekBody(t, pts)
    /\ Mutated
    /\ anchor' = [kind |-> "seek", target |-> pts,
                  was_running |-> clock.is_running]
    /\ UNCHANGED <<syncVars, decVars, audioVars, playerVars, stepVars, file_fault, audio_len, master_volume, dec_lock>>

C_GetTime(t) ==
    /\ GetTimeBody(t)
    /\ obs' = [valid |-> TRUE, val |-> clock_get_time(clock, now),
               running |-> clock.is_running, prev |-> since_mut,
               after |-> anchor.kind, target |-> anchor.target]
    /\ IF op[t] = "pause.get_time"
       THEN /\ since_mut' = -1
            /\ anchor' = NoAnchor
            /\ PauseReturned(clock')
       ELSE /\ since_mut' = clock_get_time(clock, now)
            /\ UNCHANGED <<anchor, streak, after_first>>
    /\ UNCHANGED <<syncVars, decVars, audioVars, playerVars, stepVars, file_fault, audio_len, master_volume, dec_lock>>

C_IsRunning(t) ==
    /\ IsRunningBody(t)
    /\ UNCHANGED <<clockHistory, syncVars, decVars, audioVars, playerVars, stepVars, file_fault, audio_len, master_volume, dec_lock>>

C_Stop(t) ==
    /\ StopBody(t)
    /\ Mutated
    /\ anchor' = NoAnchor
    /\ UNCHANGED <<syncVars, decVars, audioVars, playerVars, stepVars, file_fault, audio_len, master_volume, dec_lock>>

C_Tick ==
    /\ Tick
    /\ obs' = NoObs
    /\ anchor' = NoAnchor
    /\ UNCHANGED <<since_mut, streak, after_first, syncVars, decVars, audioVars, playerVars, stepVars, file_fault, audio_len, master_volume, dec_lock>>

\* The steps of thread t inside a clock method.
ClockStep(t) ==
    \/ C_Acquire(t)
    \/ \E pts \in PtsArgs : C_Start(t, pts)
    \/ C_Pause(t)
    \/ C_Resume(t)
    \/ \E pts \in PtsArgs : C_Seek(t, pts)
    \/ C_GetTime(t)
    \/ C_IsRunning(t)
    \/ C_Stop(t)

ClockNext ==
    \/ \E t \in ClockCallers, o \in ClockOps : C_Call(t, o)
    \/ \E t \in ClockCallers : ClockStep(t)
    \/ C_Tick

ClockInitAll == ClockInit /\ HistoryInit /\ SyncInit /\ DecoderIdle
                  /\ AudioInit /\ PlayerInit /\ StepIdle

ClockSpec == ClockInitAll /\ [][ClockNext]_vars

\* Every thread inside a clock method keeps running.
FairClockSpec == ClockSpec /\ \A t \in ClockCallers : WF_vars(ClockStep(t))

(***************************************************************************)
(* Claims about the PlaybackClock                                          *)
(***************************************************************************)

\* Thread t has called pause() and found the clock running.
PausingRunningClock(t) ==
    pc[t] = "body" /\ op[t] = "pause" /\ clock.is_running

\* C1: every clock method returns; no clock operation waits forever on the
\* clock's own lock: no thread waits to acquire the lock that it holds itself
\* (threading.Lock is not reentrant, so that wait never ends).
C1_NoWaitOnOwnLock ==
    \A t \in ClockCallers : ~(pc[t] = "acquire" /\ clock_lock = t)

\* C2: the value get_time() returns is start_pts + (wall_now - start_wall_time)
\* when the clock is running and paused_pts when it is not; and while the
\* clock is not running, two get_time() calls with nothing but wall time
\* between them return the same value.
C2_GetTimeInvariant ==
    obs.valid =>
        /\ clock.is_running = obs.running
        /\ obs.running => obs.val = clock.start_pts + (now - clock.start_time)
        /\ ~obs.running => obs.val = clock.paused_at
        /\ (~obs.running /\ obs.prev # -1) => obs.val = obs.prev

C2_Witness ==
    /\ obs.valid /\ obs.running
    /\ now > clock.start_time
    /\ clock.start_pts > 0

\* C3: a get_time() made right after seek(t), with no wall-clock time elapsed,
\* returns t whether the clock was running or not, and seek(t) leaves the
\* running flag as it was.
C3_SeekThenGetTime ==
    /\ (obs.valid /\ obs.after = "seek") => obs.val = obs.target
    /\ anchor.kind = "seek" => clock.is_running = anchor.was_running

C3_Witness ==
    /\ obs.valid /\ obs.after = "seek"
    /\ obs.running
    /\ obs.target > 0
    /\ now > 0

\* C4: calling pause() twice in a row leaves the clock in the same state as
\* calling it once, whatever wall-clock time passes between the calls: a
\* pause() of a running clock comes to leave it paused, and a second pause()
\* in a row leaves the clock as the first one left it.
C4_PauseTwiceAsOnce ==
    /\ [](streak = 2 => clock = after_first)
    /\ \A t \in ClockCallers :
          PausingRunningClock(t) ~> (streak >= 1 /\ ~clock.is_running)

\* C5: after pause() on a running clock whose get_time() is P the clock holds
\* P: pause() comes to leave the clock not running with paused_pts = P, the
\* value its get_time() returned; and the first get_time() after resume(),
\* with no wall-clock time elapsed, is the paused_pts the clock held.
C5_PauseHoldsResumeContinues ==
    /\ []((obs.valid /\ obs.after = "resume") => obs.val = obs.target)
    /\ \A t \in ClockCallers :
          PausingRunningClock(t) ~>
              (~clock.is_running /\ obs.valid /\ clock.paused_at = obs.val)


(***************************************************************************)
(* SyncSpec: the sync thread, the controller's thread and a producer       *)
(***************************************************************************)
SyncTick == Tick /\ UNCHANGED <<clockHistory, syncVars, decVars, audioVars, playerVars, stepVars, file_fault, audio_len, master_volume, dec_lock>>

SyncInitAll == ClockInit /\ HistoryInit /\ SyncInit /\ DecoderIdle
                 /\ AudioInit /\ PlayerInit /\ StepIdle

SyncNext ==
    \/ \E pts \in PtsArgs : SyncStart(pts)
    \/ SyncPause
    \/ SyncResume
    \/ \E pts \in PtsArgs : SyncSeek(pts)
    \/ SyncStop
    \/ SyncStopClock
    \/ SyncJoin
    \/ \E p \in PtsArgs : Produce(p)
    \/ S_LoopTop
    \/ S_CheckClock
    \/ S_ReadTime
    \/ S_GetFrame
    \/ S_EmptyCheck
    \/ S_CatchUp
    \/ S_Spin
    \/ S_Recheck
    \/ S_RecheckClock
    \/ S_Display
    \/ S_PosUpdate
    \/ SyncTick

SyncSpec == SyncInitAll /\ [][SyncNext]_vars

(***************************************************************************)
(* Claims about the SyncController                                         *)
(***************************************************************************)

\* C6: a dequeued frame whose pts is strictly behind current_time -
\* frame_duration is never passed to on_frame_ready, whatever the queue holds
\* behind it: the frame given to on_frame_ready is never one found late.
C6_LateFrameNeverShown ==
    [][S_Display => ~held_late]_vars

\* C7: with frames entering the queue in non-decreasing pts order, the pts
\* values passed to on_frame_ready are non-decreasing, whichever frames are
\* dropped as late.
C7_ShownNonDecreasing ==
    [][S_Display => frame >= last_shown]_vars

C7_Witness ==
    /\ frames_displayed >= 2
    /\ frames_dropped >= 1
    /\ last_shown >= 1

\* C8: on_frame_ready is invoked only when the controller's running flag and
\* the clock's running flag were both read true at the re-check that follows
\* the wait, and a frame whose wait saw a pause() or a stop() complete is not
\* passed to on_frame_ready.
C8_RecheckSuppressesStaleFrame ==
    /\ [](spc = "display" => (running_seen /\ clock_seen))
    /\ [][S_Display => ~interrupted]_vars

C8_Witness ==
    /\ interrupted
    /\ spc = "pos_update"
    /\ frame # NoFrame
    /\ frames_displayed = 0

(***************************************************************************)
(* Claims about the VideoDecoder                                           *)
(***************************************************************************)

\* C9: after stop() is called on a decode worker whose thread has been
\* started, whatever the thread is doing, the thread eventually leaves its
\* decode loop and terminates.
C9_StopTerminatesThread ==
    (stop_state = "started") ~> (dpc = "terminated")

\* C10: no seek request is left pending in a thread that has terminated: a
\* seek() made while the thread was in its decode loop with _running set, on a
\* worker that stop() was never called on, has been performed by the time the
\* thread has terminated.
C10_NoSeekLeftPending ==
    dpc = "terminated" => ~seek_pending

\* C11: when the decode thread finishes handling a seek request its frame
\* queue is empty, and once a seek has been handled the queue never holds a
\* frame decoded before the last container seek the thread made.
C11_NoPreSeekFrameQueued ==
    /\ [][D_SeekDone => dec_queue' = <<>>]_vars
    /\ [](seek_handled =>
             \A i \in 1..Len(dec_queue_stale) : ~dec_queue_stale[i])

C11_Witness ==
    /\ seek_handled
    /\ dec_queue # <<>>
    /\ seek_target > 0
    /\ container_pos > keyframe_before(seek_target)

(***************************************************************************)
(* Claims about the workers' life cycle                                    *)
(***************************************************************************)

\* C12: resume() of a worker that has finished, video or audio, changes none
\* of its running, paused, finished and seek-request flags, and leaves its
\* thread where it is: an ended thread is not started again.
C12_ResumeOfFinishedIsNoOp ==
    /\ [][(DecResume /\ is_finished(dec_finished, dec_running)) =>
             UNCHANGED <<dec_running, dec_paused, dec_finished,
                         seek_requested, seek_target, dpc>>]_vars
    /\ [][M_ResumeAll =>
             \A t \in players :
                 is_finished(aw[t].finished, aw[t].running) =>
                     aw'[t] = aw[t]]_vars

\* A video worker and an audio worker, both finished while paused, have each
\* had resume() called on them.
C12_Witness ==
    /\ dec_resumed /\ dec_paused /\ dpc = "terminated"
    /\ aw_resumed
    /\ \E t \in players : /\ is_finished(aw[t].finished, aw[t].running)
                          /\ aw[t].paused
                          /\ aw[t].pc = "terminated"

(***************************************************************************)
(* Claims about the AudioManager                                           *)
(***************************************************************************)

\* C16: after initialize_all_tracks() the keys of players are exactly the
\* discovered tracks whose open() succeeded, a track that failed to open
\* keeping no other track out, and the call returns true iff at least one
\* track opened.
C16_PlayersAreTheOpenedTracks ==
    [][\A n \in 0..Cardinality(TrackIds), opens \in SUBSET TrackIds :
          M_InitializeAllTracks(n, opens) =>
              /\ players' = {t \in track_info' : t \in opens}
              /\ init_result' = (\E t \in track_info' : t \in opens)
              /\ \A t \in players' : aw'[t].container = "open"]_vars

\* Two tracks were discovered, track 0 failed to open and track 1 has its
\* worker under key 1.
C16_Witness ==
    /\ am_initialized
    /\ track_info = {0, 1}
    /\ players = {1}
    /\ init_result = TRUE

\* C17: a set_track_volume(i, v) or set_track_muted(i, m) that changes any
\* worker at all is one whose i has a worker, and it leaves the workers of
\* the other tracks as they are; a muted track's callback writes zeros
\* whatever its volume, and a callback of one track leaves the other
\* tracks as they are.
C17_VolumeAndMuteAreIsolated ==
    /\ [][\A i \in TrackArgs, v \in VolumeArgs :
             (aw' # aw /\ M_SetTrackVolume(i, v)) =>
                 /\ i \in players
                 /\ \A t \in TrackIds \ {i} : aw'[t] = aw[t]]_vars
    /\ [][\A i \in TrackArgs, m \in BOOLEAN :
             (aw' # aw /\ M_SetTrackMuted(i, m)) =>
                 /\ i \in players
                 /\ \A t \in TrackIds \ {i} : aw'[t] = aw[t]]_vars
    /\ [](\A t \in TrackIds : aw[t].muted => callback_output(aw[t]) = 0)
    /\ [][\A t \in TrackIds :
             (aw' # aw /\ A_Callback(t)) =>
                 \A u \in TrackIds \ {t} : aw'[u] = aw[u]]_vars

\* Track 0 is at half volume and muted, track 1 untouched; both have a chunk
\* to play: the callback of track 0 writes zeros, that of track 1 the
\* samples at full volume.
C17_Witness ==
    /\ players = {0, 1}
    /\ aw[0].volume = 1 /\ aw[0].muted
    /\ aw[1].volume = FullVolume /\ ~aw[1].muted
    /\ \A t \in players : /\ aw[t].sd_stream = "started"
                          /\ ~aw[t].paused
                          /\ aw[t].queue # <<>>
    /\ callback_output(aw[0]) = 0
    /\ callback_output(aw[1]) = FullVolume

\* C20: a worker whose thread has ended without an output stream, the device
\* having failed to open at the start of run(), is not running, has released
\* its container and is no longer among the manager's players.
C20_DeviceFailureDropsWorker ==
    \A t \in TrackIds :
        (aw[t].pc = "terminated" /\ aw[t].sd_stream = "none") =>
            /\ ~aw[t].running
            /\ aw[t].container = "none"
            /\ t \notin players

(***************************************************************************)
(* Claims about the VideoPlayer                                            *)
(***************************************************************************)

\* C13: the player never calls start() on a worker whose thread has been
\* started before.
C13_NoThreadStartedTwice == ~started_twice

\* C14: a play() made once playback has run to the end of the file leaves
\* the player not playing and starts no thread.
C14_PlayAtEndDoesNothing ==
    last_cmd = "play_after_end" => (~is_playing /\ ~started_twice)

\* C19: while the file the player was last given could not be opened, the
\* player is not playing, its timers are stopped, the decode thread has not
\* been started and the frame queue is empty.
C19_FailedOpenNeverPlays ==
    ~file_ok =>
        /\ ~is_playing
        /\ ~timers_on
        /\ dpc = "not_started"
        /\ dec_queue = <<>>

\* play() has been called on the decoder left by an open_file() that failed.
C19_Witness ==
    /\ has_decoder
    /\ ~file_ok
    /\ container = "none"
    /\ last_cmd = "play_at_end"

\* C15: when playback is resumed, by play() or by the _start_playback() it
\* left pending, and the thread of some audio worker has ended, then at the
\* end of the handler, unless _start_playback() is still pending, every
\* player is a worker whose thread has just been started with a seek to the
\* playback position pending.
C15_ResumeReplacesEndedAudio ==
    [][(/\ \/ P_Play /\ ~is_playing /\ is_playing'
           \/ P_StartPlayback /\ is_playing
        /\ has_manager
        /\ \E t \in players : ~is_alive(aw[t]) /\ has_ident(aw[t]))
       => \/ start_pending'
          \/ \A t \in players' : /\ aw'[t].pc = "run_entry"
                                 /\ aw'[t].seek_requested
                                 /\ aw'[t].seek_target = player_pts]_vars

\* C18: once pause() and then stop() have been called and every worker
\* thread has ended, the video frame queue and every audio chunk queue are
\* empty.
C18_PauseStopLeavesQueuesEmpty ==
    (/\ last_cmd = "pause_stop"
     /\ ~decoder_is_alive
     /\ \A t \in players : ~is_alive(aw[t]))
    => /\ dec_queue = <<>>
       /\ \A t \in players : aw[t].queue = <<>>

(***************************************************************************)
(* Claims about errors in the video decode worker                          *)
(***************************************************************************)

\* C21: a frame that fails to decode does not end the decode worker: the
\* step in which the error is raised leaves the running and finished flags
\* as they are, takes the thread back to the head of its loop and leaves
\* the container behind the bad frame, so that the frames after it are
\* decoded; and a thread that had entered its loop has left it only after a
\* stop() or at the end of the stream.
C21_DecodeErrorIsNotFatal ==
    /\ [][(/\ D_DecodeNext
           /\ file_fault = "bad_frame"
           /\ container = "open"
           /\ container_pos = BadFrame) =>
             /\ dpc' = "loop_top"
             /\ dec_running' = dec_running
             /\ dec_finished' = dec_finished
             /\ container_pos' = BadFrame + 1]_vars
    /\ []((dpc \in {"finally", "terminated"} /\ container # "none") =>
             (stop_state # "none" \/ container_pos = VideoLen))

\* The worker of a file with a bad frame, never sought and never stopped,
\* has queued the frame that follows the bad one.
C21_Witness ==
    /\ file_fault = "bad_frame"
    /\ ~seek_handled
    /\ stop_state = "none"
    /\ dec_running
    /\ \E i \in 1..Len(dec_queue) : dec_queue[i] = BadFrame + 1

\* C22: when the container rejects the timestamp of a requested seek, the
\* step that handles the request leaves the container's decode position and
\* the frame number given to the next frame as they were, and leaves the
\* worker running.
C22_RejectedSeekKeepsPosition ==
    [][(D_SeekDone /\ file_fault = "bad_seek" /\ container = "open") =>
          /\ container_pos' = container_pos
          /\ frame_number' = frame_number
          /\ dec_running' = dec_running]_vars

(***************************************************************************)
(* Claims about the video decode worker's lock and its finished flag       *)
(***************************************************************************)

\* C25: the worker's lock is held only while the seek-request flag and the
\* seek target are read or written: the decode thread is never inside
\* _perform_seek(), seeking the container, while it holds the lock, so
\* that a seek() never has to wait for the container.
C25_LockHeldOnlyForFlags ==
    dec_lock = "thread" => dpc # "seeking"

\* C26: is_finished is not true of a worker whose thread was ended by stop()
\* before the end of the stream, and once it is true of a worker whose
\* thread has ended at the end of the stream no command makes it false.
C26_FinishedMeansEndOfStream ==
    /\ []((/\ dpc = "terminated"
           /\ stop_state = "started"
           /\ container_pos < VideoLen) =>
             ~is_finished(dec_finished, dec_running))
    /\ [][(/\ dpc = "terminated"
           /\ stop_state = "none"
           /\ is_finished(dec_finished, dec_running)) =>
             is_finished(dec_finished', dec_running')]_vars

(***************************************************************************)
(* Claims about the frame-stepping cache                                   *)
(***************************************************************************)

\* C23: on a file whose frames are one frame duration apart, whatever its
\* frame rate, in a row of forward steps (direction = +1, target one frame
\* duration after current_pts) that began with an empty cache and no step
\* decoder, each made from the frame the call before it returned, every
\* call that returns a frame returns one whose pts is greater than the
\* current_pts it was given, and decodes no frame whose pts was in the
\* cache when it was called.
C23_ForwardStepsIncreaseAndDecodeOnce ==
    [][\A target_pts \in StepTargets, current_pts \in StepCurrents :
          (/\ forward_run' > 0
           /\ step_file = RegularFile
           /\ GetFrameAt(target_pts, current_pts, 1)) =>
              /\ step_returned' > current_pts
              /\ step_decoded' \cap pts_set(frame_cache) = {}]_vars

\* C24: every seek(position) of the video worker empties the frame-stepping
\* cache: after it the cache holds no frame that was inserted before it.
C24_SeekClearsFrameCache ==
    [][\A position \in SeekArgs :
          DecSeek(position) => frame_cache' = <<>>]_vars

\* C29: the frame-stepping cache never holds more than its capacity
\* allows, and its entries are in non-decreasing pts order.
C29_CacheBoundedAndSorted ==
    /\ Len(frame_cache) <= CacheSize
    /\ \A i \in 1..(Len(frame_cache) - 1) : frame_cache[i] <= frame_cache[i + 1]

\* A call has returned a frame and left the cache full, without one of the
\* frames it decoded.
C29_Witness ==
    /\ Len(frame_cache) = CacheSize
    /\ step_returned # NoFrame
    /\ \E p \in step_decoded : p \notin pts_set(frame_cache)

\* C30: no two entries of the frame-stepping cache have pts within half a
\* frame duration of each other.
C30_NoCacheEntriesWithinHalfFrame ==
    \A i, j \in 1..Len(frame_cache) :
        i # j => 2 * abs(frame_cache[i] - frame_cache[j]) >= FrameTicks

(***************************************************************************)
(* Claims about the position callback of the sync loop                     *)
(***************************************************************************)

C31_InsertedFrameStaysCached ==
    [][\A target_pts \in StepTargets, current_pts \in StepCurrents,
          direction \in StepDirections :
          (/\ GetFrameAt(target_pts, current_pts, direction)
           /\ step_decoded' # {}
           /\ step_container') =>
              step_last_pts' \in pts_set(frame_cache')]_vars

\* C32: a call of get_frame_at_position() that missed the cache, decoded at
\* least one frame and met no error returns a frame, the last one it
\* decoded, also when the stream ended before a frame at or past the target
\* less half a frame duration was found.
C32_EndOfStreamReturnsLastDecoded ==
    [][\A target_pts \in StepTargets, current_pts \in StepCurrents,
          direction \in StepDirections :
          (/\ GetFrameAt(target_pts, current_pts, direction)
           /\ step_decoded' # {}
           /\ step_container') =>
              step_returned' = step_last_pts']_vars

\* C33: get_frame_at_position() leaves the live decode worker as it was:
\* a step that changes the live container or its decode position, the frame
\* queue, the running, paused or finished flag, the seek-request flag or
\* the seek target is no call of get_frame_at_position().
C33_SteppingLeavesLiveWorkerAlone ==
    [][\/ /\ container' = container
          /\ container_pos' = container_pos
          /\ dec_queue' = dec_queue
          /\ dec_running' = dec_running
          /\ dec_paused' = dec_paused
          /\ dec_finished' = dec_finished
          /\ seek_requested' = seek_requested
          /\ seek_target' = seek_target
       \/ \A target_pts \in StepTargets, current_pts \in StepCurrents,
             direction \in StepDirections :
             ~GetFrameAt(target_pts, current_pts, direction)]_vars

\* A call made while the decode thread was in its loop has decoded frames
\* on the step container, past the position of the live container, and the
\* live worker has a frame in its queue.
C33_Witness ==
    /\ dpc \in LoopStates
    /\ dec_running
    /\ dec_queue # <<>>
    /\ step_decoded # {}
    /\ step_returned # NoFrame
    /\ step_pos - 1 > container_pos

(***************************************************************************)
(* Claims about the ownership of the live container                        *)
(***************************************************************************)

\* C34: the live container is never closed while the decode thread is
\* inside a seek call on it, and the decode thread never makes a decode or
\* seek call on a container that has been closed.
C34_ContainerOwnedByThread ==
    /\ [](dpc = "seeking" => container # "closed")
    /\ [][(D_DecodeNext \/ D_SeekDone) => container # "closed"]_vars

(***************************************************************************)
(* Claims about chunks and frames that are never consumed                  *)
(***************************************************************************)

\* C35: when a track worker's thread has reached the end of its stream, it
\* stops and closes the output stream only once the callback has consumed
\* every chunk of the queue.
C35_QueuePlayedOutBeforeStreamCloses ==
    [][\A t \in TrackIds :
          (A_Finally(t) /\ aw[t].finished /\ aw[t].sd_stream = "started") =>
              aw[t].queue = <<>>]_vars

\* C36: a frame the video worker has decoded stays in the worker's hand
\* until it is put on the queue, whenever no seek is requested and no
\* stop() was called, paused or not: a pause() makes the worker wait, and
\* loses no frame.
C36_PauseLosesNoFrame ==
    [][(D_PutLoop /\ dec_running /\ stop_state = "none" /\ ~seek_requested) =>
          dec_frame' = dec_frame]_vars

(***************************************************************************)
(* Claims about the sync loop's count of frames                            *)
(***************************************************************************)

\* C37: at every loop boundary of the sync loop frames_displayed +
\* frames_dropped is the number of frames the loop has taken from the
\* queue: each is counted once, as displayed or as dropped.
C37_EveryFrameCountedOnce ==
    spc \in {"loop_top", "exited"} =>
        frames_displayed + frames_dropped = n_produced - Len(frame_queue)

(***************************************************************************)
(* Claims about the player's seek, resume and volume                       *)
(***************************************************************************)

\* C38: once seek(t) has been called, no display tick shows a frame that
\* the decode thread decoded from the position the container had before
\* the seek: a frame it shows is at or after the keyframe that the seek
\* takes the container to.
C38_NoPreSeekFrameDisplayed ==
    [][(/\ P_DisplayTick
        /\ has_decoder
        /\ seek_requested
        /\ player_pts' # player_pts) =>
              player_pts' >= keyframe_before(seek_target)]_vars

\* C39: while the player is playing, its play() having called resume() on
\* every worker it did not start, a decode worker whose thread has been
\* started, has not left its loop and was not stopped is not paused,
\* wherever the thread was in its start-up when pause() and resume() were
\* called.
C39_ResumeAfterStartUndoesPause ==
    (/\ is_playing
     /\ has_decoder
     /\ stop_state = "none"
     /\ dpc \in {"run_entry"} \cup LoopStates) => ~dec_paused

\* C40: change_volume(delta) on a player that has a manager leaves the
\* master volume within 0.0 .. 1.0 and sets it on every track that has a
\* worker.
C40_ChangeVolumeReachesEveryTrack ==
    [][\A delta \in VolumeDeltas :
          (P_ChangeVolume(delta) /\ has_manager) =>
              /\ master_volume' \in 0..FullVolume
              /\ \A t \in players : aw'[t].volume = master_volume']_vars
=============================================================================
